---- MODULE Spec2Model ----
(***************************************************************************)
(* Shiftropolis arena generation and validation.                           *)
(*                                                                         *)
(* ArenaGenerator::generate_with_monitoring runs six stages on one Arena   *)
(* and one AnomalyMonitor, then validates.  Every value the code takes     *)
(* from its StdRng is a draw u in 0..99 standing for the uniform sample    *)
(* u/100 of [0,1); gen::<f32>() < p is u < 100p, gen_range(0..n) is        *)
(* (u*n) \div 100, and a roulette over weights starts from u * total.      *)
(* A scenario (scn) fixes the size, the rule count and the sets the draws  *)
(* of each site are taken from.  Real-valued quantities are scaled         *)
(* integers: weights in hundredths, environment values in 1/10000.         *)
(* Arena::id (a fresh Uuid) and generation_metadata.seed are not state of  *)
(* any property here and are left out.                                     *)
(***************************************************************************)
EXTENDS Integers, Sequences, FiniteSets, TLC

VARIABLES
    scn,            \* the call's inputs and the sets its random draws come from
    pc,             \* position in generate_with_monitoring / in a validator call
    rules_order,    \* iteration order of RulesDatabase.rules (a HashMap)
    env_order,      \* iteration order of EnvVarsDatabase.variables (a HashMap)
    arena,          \* the Arena: width, height, modules, active_rules, env_variables
    monitor,        \* the AnomalyMonitor: anomalies, metrics, rules_applied
    sel,            \* select_compatible_rules locals: selected, incompatible_set, i
    wfc,            \* the WFCGenerator: module_weights, constraints, result
    loc,            \* loop positions and locals of the running stage
    result,         \* "none" | "ok" | "err": what generate_with_monitoring returned
    rng,            \* the draws taken so far (tape), and a tape being replayed
    prev,           \* the grid returned by an earlier call with the same seed
    vres            \* a ValidationResult of the Structural Validator

vars == <<scn, pc, rules_order, env_order, arena, monitor, sel, wfc, loc,
          result, rng, prev, vres>>

----------------------------------------------------------------------------
(* Bounds of the model *)

MaxSize == 3
MaxRuleCount == 7

----------------------------------------------------------------------------
(* Generic helpers *)

Min(a, b) == IF a < b THEN a ELSE b
Max(a, b) == IF a > b THEN a ELSE b
Range(s) == {s[k] : k \in 1..Len(s)}

RECURSIVE SumSeq(_)
SumSeq(s) == IF s = <<>> THEN 0 ELSE Head(s) + SumSeq(Tail(s))

Reverse(s) == [k \in 1..Len(s) |-> s[Len(s) + 1 - k]]

----------------------------------------------------------------------------
(* Catalogs: data/mod.rs *)

RuleIds == {"NoJump", "LowJump", "HighJump", "SpeedUp", "NoAttack",
            "LavaFloor", "ProjectileRain", "OrbCollection", "MoonGravity"}

\* the vec! of RulesDatabase::initialize, in declaration order
RuleDeclOrder == <<"NoJump", "LowJump", "HighJump", "SpeedUp", "NoAttack",
                   "LavaFloor", "ProjectileRain", "OrbCollection", "MoonGravity">>

RuleTags(id) ==
    CASE id = "NoJump"         -> {"movement", "restriction", "difficulty_medium"}
      [] id = "LowJump"        -> {"movement", "modifier", "difficulty_easy"}
      [] id = "HighJump"       -> {"movement", "modifier", "difficulty_easy"}
      [] id = "SpeedUp"        -> {"movement", "modifier", "difficulty_easy"}
      [] id = "NoAttack"       -> {"combat", "restriction", "difficulty_hard"}
      [] id = "LavaFloor"      -> {"hazard", "environment", "difficulty_medium"}
      [] id = "ProjectileRain" -> {"hazard", "dynamic", "difficulty_hard"}
      [] id = "OrbCollection"  -> {"resource", "collection", "difficulty_easy"}
      [] id = "MoonGravity"    -> {"physics", "environment", "difficulty_medium"}

\* A catalog in which Moon Gravity does not declare No Jump back.
OneWayRuleIncompatibleWith(id) ==
    CASE id = "NoJump"   -> {"LowJump", "HighJump", "MoonGravity"}
      [] id = "LowJump"  -> {"NoJump", "HighJump"}
      [] id = "HighJump" -> {"NoJump", "LowJump"}
      [] OTHER           -> {}

RuleIncompatibleWith(id) ==
    CASE id = "NoJump"      -> {"LowJump", "HighJump", "MoonGravity"}
      [] id = "LowJump"     -> {"NoJump", "HighJump"}
      [] id = "HighJump"    -> {"NoJump", "LowJump"}
      [] id = "MoonGravity" -> {"NoJump"}
      [] OTHER              -> {}

\* The Rule struct of the catalog entry `id`.
CatalogRule(id) ==
    [id |-> id, tags |-> RuleTags(id), incompatible_with |-> RuleIncompatibleWith(id)]

\* RulesDatabase::get_all_rules: self.rules.values(), in the map's order
GetAllRules(order) == [k \in 1..Len(order) |-> CatalogRule(order[k])]

\* Iteration orders of the rule map that the model explores.
RuleOrders == {RuleDeclOrder, Reverse(RuleDeclOrder)}

EnvVarIds == {"Gravity", "GameSpeed"}
EnvDeclOrder == <<"Gravity", "GameSpeed">>
EnvOrders == {EnvDeclOrder, Reverse(EnvDeclOrder)}

\* EnvVariable.default_value and .range, in 1/10000
EnvDefault(id) == 10000
EnvRangeMin(id) == IF id = "Gravity" THEN 2000 ELSE 5000
EnvRangeMax(id) == IF id = "Gravity" THEN 30000 ELSE 20000

----------------------------------------------------------------------------
(* The random generator.  rng.tape is the sequence of draws a recording    *)
(* call has taken; a replaying call (a second generator built from the     *)
(* same seed) reads that tape back, draw by draw, and is free past its end.*)

\* The values the k-th draw (k = 0, 1, ...) of the running step may take,
\* when the scenario lets the site draw from S.
DrawSet(S, k) ==
    IF rng.mode = "replay" /\ rng.pos + k + 1 <= Len(rng.tape)
    THEN {rng.tape[rng.pos + k + 1]}
    ELSE S

\* The generator after the running step took the draws us, in order.
Taken(us) ==
    CASE rng.mode = "record" -> [rng EXCEPT !.tape = @ \o us, !.pos = @ + Len(us)]
      [] rng.mode = "replay" -> [rng EXCEPT !.pos = @ + Len(us)]
      [] OTHER               -> rng

\* rng.gen_range(0..n) for the draw u
GenRange(u, n) == (u * n) \div 100

RECURSIVE RouletteFrom(_, _, _)
\* the loop `target -= weight; if target <= 0.0 { pick }` from position k on;
\* 0 when no position is picked
RouletteFrom(weights, target, k) ==
    IF k > Len(weights) THEN 0
    ELSE IF target - weights[k] <= 0 THEN k
    ELSE RouletteFrom(weights, target - weights[k], k + 1)

\* Roulette selection over weights (hundredths) for the draw u: the position
\* picked (1-based), or `fallback` when the loop picks none.
Roulette(weights, u, fallback) ==
    LET k == RouletteFrom([j \in 1..Len(weights) |-> 100 * weights[j]],
                          u * SumSeq(weights), 1)
    IN  IF k = 0 THEN fallback ELSE k

----------------------------------------------------------------------------
(* The monitor: monitoring/mod.rs *)

Anomaly(category, severity, message) ==
    [category |-> category, severity |-> severity, message |-> message]

\* AnomalyMonitor::new
NewMonitor == [anomalies |-> <<>>, metrics |-> <<>>, rules_applied |-> <<>>,
               started |-> FALSE]

\* A report that keeps only the latest anomaly
ReportLatestOnly(m, category, severity, message) ==
    [m EXCEPT !.anomalies = <<Anomaly(category, severity, message)>>]

\* AnomalyMonitor::report_anomaly
ReportAnomaly(m, category, severity, message) ==
    [m EXCEPT !.anomalies = Append(@, Anomaly(category, severity, message))]

\* AnomalyMonitor::record_rule_application
RecordRuleApplication(m, rule_id) == [m EXCEPT !.rules_applied = Append(@, rule_id)]

\* AnomalyMonitor::record_metric: metrics.insert(name, value); metrics is a
\* function from the names recorded so far to their values
RecordMetric(m, name, value) ==
    [m EXCEPT !.metrics = [n \in (DOMAIN @) \cup {name} |->
                              IF n = name THEN value ELSE @[n]]]

\* A has_critical_anomalies that counts everything above Info.
HasCriticalOrWarning(m) ==
    \E k \in 1..Len(m.anomalies) : m.anomalies[k].severity # "Info"

\* AnomalyMonitor::has_critical_anomalies
HasCriticalAnomalies(m) ==
    \E k \in 1..Len(m.anomalies) : m.anomalies[k].severity = "Critical"

----------------------------------------------------------------------------
(* Stage 1: ArenaGenerator::select_compatible_rules *)

\* ArenaGenerator::calculate_rule_weight, in hundredths
CalculateRuleWeight(rule, current_rules) ==
    LET movement_rules == Cardinality({k \in 1..Len(current_rules) :
                              "movement" \in current_rules[k].tags})
        hazard_rules   == Cardinality({k \in 1..Len(current_rules) :
                              "hazard" \in current_rules[k].tags})
        w0 == 100
        w1 == IF "movement" \in rule.tags /\ movement_rules > 1 THEN w0 \div 2 ELSE w0
        w2 == IF "hazard" \in rule.tags /\ hazard_rules > 1 THEN w1 \div 2 ELSE w1
    IN  IF "difficulty_easy" \in rule.tags THEN (w2 * 12) \div 10
        ELSE IF "difficulty_hard" \in rule.tags THEN (w2 * 8) \div 10
        ELSE w2

\* A filter that forgets the rules already selected.
AvailableRulesNoDedup(all_rules, selected, incompatible_set) ==
    SelectSeq(all_rules, LAMBDA rule : rule.id \notin incompatible_set)

\* available_rules: the catalog rules neither excluded nor already selected,
\* in the catalog's iteration order
AvailableRules(all_rules, selected, incompatible_set) ==
    SelectSeq(all_rules, LAMBDA rule :
        /\ rule.id \notin incompatible_set
        /\ ~ \E k \in 1..Len(selected) : selected[k].id = rule.id)

\* selected_index: the roulette over the candidates' weights; index stays 0
\* (the first candidate) when the loop never breaks
SelectedIndex(available, selected, u) ==
    Roulette([k \in 1..Len(available) |-> CalculateRuleWeight(available[k], selected)],
             u, 1)

----------------------------------------------------------------------------
(* Scenarios and the initial state *)

\* A call generate_with_monitoring(size, count, monitor) whose draws all come
\* from the single value u, except the ones a scenario widens.
Scenario(size, count, u) ==
    [size |-> size, count |-> count, seedS |-> {u},
     ruleS |-> {u}, envS |-> {u}, fillS |-> {u}, free |-> {}, solid |-> {},
     hazard |-> {}, minS |-> {u},
     typeS |-> {u}, posS |-> {u}, cntS |-> {u}, probS |-> {u}, dirS |-> {u},
     shufS |-> {u}, kindS |-> {u}, elapsedS |-> {0}]

\* Arena::new(width, height, seed)
NewArena(width, height, seed) ==
    [width |-> width, height |-> height, modules |-> <<>>,
     active_rules |-> <<>>, env_variables |-> <<>>, seed |-> seed,
     generation_time_ms |-> 0]

NoSel == [selected |-> <<>>, incompatible_set |-> {}, i |-> 0]
NoWfc == [module_weights |-> <<>>, constraints |-> <<>>, result |-> <<>>]
NoLoc ==
    [k |-> 0, n |-> 0, list |-> <<>>, attempt |-> 0, needed |-> 0,
     spawnable |-> <<>>, exhausted |-> FALSE]
NoResult == [errors |-> <<>>, warnings |-> <<>>, info |-> <<>>, critical |-> <<>>]
NoPrev == [ok |-> FALSE]

\* ArenaGenerator::new and AnomalyMonitor::new: a generator whose catalogs
\* iterate in some order, a fresh monitor, no call made yet.
InitGenerator(scenarios, mode) ==
    /\ scn \in scenarios
    /\ pc = "idle"
    /\ rules_order \in RuleOrders
    /\ env_order \in EnvOrders
    /\ arena = NewArena(0, 0, 0)
    /\ monitor = NewMonitor
    /\ sel = NoSel
    /\ wfc = NoWfc
    /\ loc = NoLoc
    /\ result = "none"
    /\ rng = [tape |-> <<>>, pos |-> 0, mode |-> mode]
    /\ prev = NoPrev
    /\ vres = NoResult

----------------------------------------------------------------------------
(* generate_with_monitoring, lines 33-41 *)

\* The end of select_compatible_rules: Ok(selected) becomes active_rules of
\* the arena a.
EndSelect(a, selected, m, r) ==
    /\ arena' = [a EXCEPT !.active_rules = selected]
    /\ monitor' = m
    /\ sel' = NoSel
    /\ loc' = NoLoc
    /\ pc' = "env"
    /\ rng' = r

\* monitor.start_generation(); Arena::new(size, size, self.rng.gen()): the
\* first draw is the seed kept in the metadata.  The selection loop of a call
\* with count = 0 runs no iteration.
Generate ==
    /\ pc = "idle"
    /\ \E u \in DrawSet(scn.seedS, 0) :
          IF scn.count = 0
          THEN EndSelect(NewArena(scn.size, scn.size, u), <<>>,
                         [monitor EXCEPT !.started = TRUE], Taken(<<u>>))
          ELSE /\ arena' = NewArena(scn.size, scn.size, u)
               /\ monitor' = [monitor EXCEPT !.started = TRUE]
               /\ sel' = NoSel
               /\ pc' = "select"
               /\ rng' = Taken(<<u>>)
               /\ loc' = loc
    /\ UNCHANGED <<scn, rules_order, env_order, wfc, result, prev, vres>>

\* One iteration of `for _ in 0..count` in select_compatible_rules: no
\* candidate left records the Warning and breaks; otherwise one draw picks a
\* candidate, its incompatible_with list joins the exclusion set, and the
\* rule is recorded and pushed.
SelectRule ==
    /\ pc = "select"
    /\ sel.i < scn.count
    /\ LET all_rules == GetAllRules(rules_order)
           available == AvailableRules(all_rules, sel.selected, sel.incompatible_set)
       IN  IF available = <<>>
           THEN EndSelect(arena, sel.selected,
                          ReportAnomaly(monitor, "RULES", "Warning",
                              <<"could_only_select", Len(sel.selected), scn.count>>),
                          rng)
           ELSE \E u \in DrawSet(scn.ruleS, 0) :
                  LET rule == available[SelectedIndex(available, sel.selected, u)]
                      selected == Append(sel.selected, rule)
                      m == RecordRuleApplication(monitor, rule.id)
                  IN  IF sel.i + 1 = scn.count
                      THEN EndSelect(arena, selected, m, Taken(<<u>>))
                      ELSE /\ sel' = [selected |-> selected,
                                      incompatible_set |->
                                          sel.incompatible_set \cup rule.incompatible_with,
                                      i |-> sel.i + 1]
                           /\ monitor' = m
                           /\ rng' = Taken(<<u>>)
                           /\ UNCHANGED <<arena, loc, pc>>
    /\ UNCHANGED <<scn, rules_order, env_order, wfc, result, prev, vres>>

----------------------------------------------------------------------------
(* The arena: core/mod.rs *)

Walkable == {"FloorStd", "FloorLarge", "RampSteep"}
Hazards == {"HazardLavaPit", "HazardLaserEmitterStatic", "HazardLaserTurretRotate"}
Directions == <<<<0, 1>>, <<0, -1>>, <<1, 0>>, <<-1, 0>>>>

Cell(x, y, module_id) == [x |-> x, y |-> y, module_id |-> module_id]

\* Arena::add_module: push a record, whatever the cell holds
AddModule(a, x, y, module_id) ==
    [a EXCEPT !.modules = Append(@, Cell(x, y, module_id))]

\* The records of a at (x, y), in list order.
CellsAt(a, x, y) == SelectSeq(a.modules, LAMBDA c : c.x = x /\ c.y = y)

\* Arena::get_cell(x, y).is_none()
IsFree(a, x, y) == CellsAt(a, x, y) = <<>>

\* Arena::get_cell(x, y): the module_id of the first record at (x, y), or
\* "None"
GetCell(a, x, y) == IF IsFree(a, x, y) THEN "None" ELSE CellsAt(a, x, y)[1].module_id

\* Arena::count_modules_by_type, for a set of types
CountModules(a, types) ==
    Cardinality({k \in 1..Len(a.modules) : a.modules[k].module_id \in types})

\* A bounds test that forgets the negative side.
IsBelowUpperBounds(a, x, y) == x < a.width /\ y < a.height

\* Arena::is_valid_position
IsValidPosition(a, x, y) == x >= 0 /\ y >= 0 /\ x < a.width /\ y < a.height

HasRule(a, id) == \E k \in 1..Len(a.active_rules) : a.active_rules[k].id = id

----------------------------------------------------------------------------
(* Stage 2: ArenaGenerator::configure_environment *)

\* The value of env variable `id` that the loop over the active rules leaves
\* for the draw u: a pair <<value, rule_applied>>.
EnvByRules(a, id, u) ==
    IF id = "Gravity" /\ HasRule(a, "MoonGravity")
    THEN <<3000 + u * 20, TRUE>>
    ELSE IF id = "GameSpeed" /\ HasRule(a, "SpeedUp")
    THEN <<(EnvDefault(id) * (12000 + u * 30)) \div 10000, TRUE>>
    ELSE <<EnvDefault(id), FALSE>>

\* value += (gen::<f64>() - 0.5) * variance, variance = 10% of the range
EnvJitter(id, value, u) ==
    value + ((u - 50) * ((EnvRangeMax(id) - EnvRangeMin(id)) \div 10)) \div 100

Clamp(v, lo, hi) == IF v < lo THEN lo ELSE IF v > hi THEN hi ELSE v

\* A stored value that gets the jitter whether a rule applied or not.
EnvValueAlwaysJitter(a, id, u) ==
    Clamp(EnvJitter(id, EnvByRules(a, id, u)[1], u), EnvRangeMin(id), EnvRangeMax(id))

\* The value configure_environment stores for `id` when its draw is u.
EnvValue(a, id, u) ==
    LET r == EnvByRules(a, id, u)
        v == IF r[2] THEN r[1] ELSE EnvJitter(id, r[1], u)
    IN  Clamp(v, EnvRangeMin(id), EnvRangeMax(id))

\* env_variables.insert(id, value)
EnvInsert(env, id, value) ==
    [n \in (DOMAIN env) \cup {id} |-> IF n = id THEN value ELSE env[n]]

\* One iteration of `for env_var in env_vars`: the variable's one draw (the
\* rule's override, or the jitter when no rule applies), the clamp, the
\* insert and the metric.
ConfigureEnvironment ==
    /\ pc = "env"
    /\ loc.k < Len(env_order)
    /\ LET id == env_order[loc.k + 1]
       IN  \E u \in DrawSet(scn.envS, 0) :
              LET value == EnvValue(arena, id, u)
              IN  /\ arena' = [arena EXCEPT !.env_variables = EnvInsert(@, id, value)]
                  /\ monitor' = RecordMetric(monitor, "env_" \o id, <<value, 10000>>)
                  /\ rng' = Taken(<<u>>)
                  /\ IF loc.k + 1 = Len(env_order)
                     THEN /\ pc' = "layout"
                          /\ loc' = NoLoc
                     ELSE /\ pc' = "env"
                          /\ loc' = [loc EXCEPT !.k = @ + 1]
    /\ UNCHANGED <<scn, rules_order, env_order, sel, wfc, result, prev, vres>>

----------------------------------------------------------------------------
(* Stage 3: ArenaGenerator::generate_base_layout and the WFCGenerator *)

\* The wfc_weight of the catalog's modules, in hundredths, for the modules
\* the generator reads back (select_weighted_module and the rule
\* constraints); the other catalog entries are stored and never read.
WfcModules ==
    {"Player", "OrbEnergy", "FloorStd", "FloorLarge", "RampSteep",
     "HazardLavaPit", "HazardLaserEmitterStatic"}

CatalogWfcWeight(id) ==
    CASE id = "Player" -> 100
      [] id = "OrbEnergy" -> 1500
      [] id = "FloorStd" -> 3000
      [] id = "FloorLarge" -> 2000
      [] id = "RampSteep" -> 1000
      [] id = "HazardLavaPit" -> 500
      [] id = "HazardLaserEmitterStatic" -> 300

\* WFCGenerator::increase_module_weight / decrease_module_weight: the weight
\* times a multiplier given in tenths
ScaleModuleWeight(w, id, tenths) ==
    [w EXCEPT !.module_weights[id] = (@ * tenths) \div 10]

\* WFCGenerator::add_constraint
AddConstraint(w, name, value) ==
    [w EXCEPT !.constraints =
        [n \in (DOMAIN @) \cup {name} |-> IF n = name THEN value ELSE @[n]]]

\* ArenaGenerator::add_rule_constraints
AddRuleConstraints(w, rule) ==
    CASE rule.id = "LavaFloor" ->
            AddConstraint(ScaleModuleWeight(w, "HazardLavaPit", 30), "min_lava_pits", 2)
      [] rule.id = "NoJump" ->
            ScaleModuleWeight(ScaleModuleWeight(w, "RampSteep", 20), "FloorLarge", 5)
      [] rule.id = "OrbCollection" ->
            AddConstraint(ScaleModuleWeight(w, "OrbEnergy", 25), "min_orbs", 5)
      [] OTHER -> w

RECURSIVE AddAllRuleConstraints(_, _)
AddAllRuleConstraints(w, rules) ==
    IF rules = <<>> THEN w
    ELSE AddAllRuleConstraints(AddRuleConstraints(w, Head(rules)), Tail(rules))

\* WFCGenerator::new, the add_module_constraint of every catalog module and
\* the add_rule_constraints of every active rule
NewWfc(a) ==
    AddAllRuleConstraints(
        [module_weights |-> [id \in WfcModules |-> CatalogWfcWeight(id)],
         constraints |-> <<>>, result |-> <<>>],
        a.active_rules)

\* A candidate list that offers the player module in place of the laser.
WeightedModulesWithPlayer ==
    <<"FloorStd", "FloorLarge", "RampSteep", "HazardLavaPit", "Player">>

\* A candidate list that offers the energy orb in place of the steep ramp.
WeightedModulesWithOrb ==
    <<"FloorStd", "FloorLarge", "OrbEnergy", "HazardLavaPit", "HazardLaserEmitterStatic">>

\* The five candidates of select_weighted_module, in its order
WeightedModules ==
    <<"FloorStd", "FloorLarge", "RampSteep", "HazardLavaPit", "HazardLaserEmitterStatic">>

\* WFCGenerator::select_weighted_module for the draw u
SelectWeightedModule(w, u) ==
    LET k == Roulette([j \in 1..Len(WeightedModules) |->
                          w.module_weights[WeightedModules[j]]], u, 0)
    IN  IF k = 0 THEN "FloorStd" ELSE WeightedModules[k]

\* The draws cell idx of the fill may see: a scenario leaves some cells
\* free and scripts the others as filled (solid) or empty.
FillDraws(idx) ==
    IF idx \in scn.free THEN scn.fillS
    ELSE IF idx \in scn.solid THEN {0} ELSE {97}

\* An enforcement that stops one record short of the minimum.
NeededOneShort(w, name, id) ==
    IF name \in DOMAIN w.constraints
    THEN LET current == Cardinality({k \in 1..Len(w.result) : w.result[k].module_id = id})
         IN  IF current + 1 < w.constraints[name] THEN w.constraints[name] - current - 1 ELSE 0
    ELSE 0

\* The number of records enforce_constraints adds for a minimum
Needed(w, name, id) ==
    IF name \in DOMAIN w.constraints
    THEN LET current == Cardinality({k \in 1..Len(w.result) : w.result[k].module_id = id})
         IN  IF current < w.constraints[name] THEN w.constraints[name] - current ELSE 0
    ELSE 0

\* The draws that pick the module of cell idx: a scenario scripts some cells
\* as lava pits.
TypeDraws(idx) == IF idx \in scn.hazard THEN {90} ELSE scn.typeS

\* Where enforce_constraints goes next for the layout w: the lava loop, the
\* orb loop, or back to generate_base_layout.  The orb minimum is evaluated
\* after the lava records are in, which add no orb.
AfterLava(w) ==
    IF Needed(w, "min_orbs", "OrbEnergy") > 0
    THEN <<"orb_min", Needed(w, "min_orbs", "OrbEnergy")>>
    ELSE <<"write", 0>>

AfterFill(w) ==
    IF Needed(w, "min_lava_pits", "HazardLavaPit") > 0
    THEN <<"lava_min", Needed(w, "min_lava_pits", "HazardLavaPit")>>
    ELSE AfterLava(w)

\* generate_base_layout up to the call of wfc.generate
InitLayout ==
    /\ pc = "layout"
    /\ wfc' = NewWfc(arena)
    /\ loc' = NoLoc
    /\ pc' = "fill"
    /\ UNCHANGED <<scn, rules_order, env_order, arena, monitor, sel, result, rng, prev, vres>>

\* One cell of the fill loop of WFCGenerator::generate, row by row: the
\* density draw and, below 0.6, the weighted draw of the module.
WfcFill ==
    /\ pc = "fill"
    /\ loc.k < arena.width * arena.height
    /\ LET x == loc.k % arena.width
           y == loc.k \div arena.width
           last == loc.k + 1 = arena.width * arena.height
       IN  \E u1 \in DrawSet(FillDraws(loc.k), 0) :
              IF u1 < 60
              THEN \E u2 \in DrawSet(TypeDraws(loc.k), 1) :
                      LET w == [wfc EXCEPT !.result =
                                   Append(@, Cell(x, y, SelectWeightedModule(wfc, u2)))]
                      IN  /\ wfc' = w
                          /\ rng' = Taken(<<u1, u2>>)
                          /\ loc' = IF last THEN [NoLoc EXCEPT !.n = AfterFill(w)[2]]
                                    ELSE [loc EXCEPT !.k = @ + 1]
                          /\ pc' = IF last THEN AfterFill(w)[1] ELSE "fill"
              ELSE /\ wfc' = wfc
                   /\ rng' = Taken(<<u1>>)
                   /\ loc' = IF last THEN [NoLoc EXCEPT !.n = AfterFill(wfc)[2]]
                             ELSE [loc EXCEPT !.k = @ + 1]
                   /\ pc' = IF last THEN AfterFill(wfc)[1] ELSE "fill"
    /\ UNCHANGED <<scn, rules_order, env_order, arena, monitor, sel, result, prev, vres>>

\* One iteration of the min_lava_pits loop of enforce_constraints: a lava pit
\* at a drawn position, whatever the layout already has there.
EnforceLava ==
    /\ pc = "lava_min"
    /\ loc.n > 0
    /\ \E ux \in DrawSet(scn.minS, 0) : \E uy \in DrawSet(scn.minS, 1) :
          LET w == [wfc EXCEPT !.result =
                       Append(@, Cell(GenRange(ux, arena.width),
                                      GenRange(uy, arena.height), "HazardLavaPit"))]
          IN  /\ wfc' = w
              /\ rng' = Taken(<<ux, uy>>)
              /\ loc' = [loc EXCEPT !.n = IF loc.n = 1 THEN AfterLava(w)[2] ELSE @ - 1]
              /\ pc' = IF loc.n = 1 THEN AfterLava(w)[1] ELSE "lava_min"
    /\ UNCHANGED <<scn, rules_order, env_order, arena, monitor, sel, result, prev, vres>>

\* One iteration of the min_orbs loop of enforce_constraints
EnforceOrbs ==
    /\ pc = "orb_min"
    /\ loc.n > 0
    /\ \E ux \in DrawSet(scn.minS, 0) : \E uy \in DrawSet(scn.minS, 1) :
          /\ wfc' = [wfc EXCEPT !.result =
                        Append(@, Cell(GenRange(ux, arena.width),
                                       GenRange(uy, arena.height), "OrbEnergy"))]
          /\ rng' = Taken(<<ux, uy>>)
          /\ loc' = [loc EXCEPT !.n = @ - 1]
          /\ pc' = IF loc.n = 1 THEN "write" ELSE "orb_min"
    /\ UNCHANGED <<scn, rules_order, env_order, arena, monitor, sel, result, prev, vres>>

\* ArenaGenerator::has_adjacent_hazard: the first record of a neighbouring
\* position is a lava pit or a static laser
HasAdjacentHazard(a, x, y) ==
    \E d \in 1..Len(Directions) :
        GetCell(a, x + Directions[d][1], y + Directions[d][2])
            \in {"HazardLavaPit", "HazardLaserEmitterStatic"}

\* ArenaGenerator::find_safe_spawn_location: the position of the first floor
\* record with no adjacent hazard, or the centre
FindSafeSpawnLocation(a) ==
    LET safe == {k \in 1..Len(a.modules) :
                    /\ a.modules[k].module_id \in {"FloorStd", "FloorLarge"}
                    /\ ~HasAdjacentHazard(a, a.modules[k].x, a.modules[k].y)}
    IN  IF safe = {} THEN <<a.width \div 2, a.height \div 2>>
        ELSE LET k == CHOOSE j \in safe : \A i \in safe : j <= i
             IN  <<a.modules[k].x, a.modules[k].y>>

\* The spawn ensured after the layout is written: a player record unless one
\* exists
EnsurePlayer(a) ==
    IF \E k \in 1..Len(a.modules) : a.modules[k].module_id = "Player" THEN a
    ELSE LET p == FindSafeSpawnLocation(a)
         IN  AddModule(a, p[1], p[2], "Player")

\* The rest of generate_base_layout: every record of the layout is added to
\* the arena in order, then the player spawn is ensured.
WriteLayout ==
    /\ pc = "write"
    /\ arena' = EnsurePlayer([arena EXCEPT !.modules = @ \o wfc.result])
    /\ wfc' = NoWfc
    /\ loc' = NoLoc
    /\ pc' = IF arena.active_rules = <<>> THEN "place" ELSE "rules"
    /\ UNCHANGED <<scn, rules_order, env_order, monitor, sel, result, rng, prev, vres>>

----------------------------------------------------------------------------
(* Stage 4: ArenaGenerator::apply_rule_modifications *)

\* The end of one iteration of `for rule in arena.active_rules.clone()`:
\* record_rule_application, then the next rule or the next stage.
RuleDone(m) ==
    /\ monitor' = RecordRuleApplication(m, arena.active_rules[loc.k + 1].id)
    /\ loc' = [NoLoc EXCEPT !.k = loc.k + 1]
    /\ pc' = IF loc.k + 1 = Len(arena.active_rules) THEN "place" ELSE "rules"

\* enhance_lava_hazards: the positions of the lava records, in list order
LavaPositions(a) ==
    LET lava == SelectSeq(a.modules, LAMBDA c : c.module_id = "HazardLavaPit")
    IN  [k \in 1..Len(lava) |-> <<lava[k].x, lava[k].y>>]

\* The start of one iteration of the loop over the active rules: Projectile
\* Rain draws its turret count, Lava Floor collects the lava positions, any
\* other rule is only recorded.
ApplyRule ==
    /\ pc = "rules"
    /\ loc.k < Len(arena.active_rules)
    /\ LET id == arena.active_rules[loc.k + 1].id
       IN  CASE id = "ProjectileRain" ->
                  \E u \in DrawSet(scn.cntS, 0) :
                      /\ loc' = [loc EXCEPT !.n = 2 + GenRange(u, 3)]
                      /\ pc' = "projectile"
                      /\ rng' = Taken(<<u>>)
                      /\ monitor' = monitor
             [] id = "LavaFloor" /\ LavaPositions(arena) # <<>> ->
                  /\ loc' = [loc EXCEPT !.list = LavaPositions(arena)]
                  /\ pc' = "lava_expand"
                  /\ UNCHANGED <<rng, monitor>>
             [] OTHER ->
                  /\ RuleDone(monitor)
                  /\ rng' = rng
    /\ UNCHANGED <<scn, rules_order, env_order, arena, sel, wfc, result, prev, vres>>

\* One iteration of the loop of add_projectile_hazards: a rotating turret at
\* a drawn position if that position is free.
ProjectileHazard ==
    /\ pc = "projectile"
    /\ loc.n > 0
    /\ \E ux \in DrawSet(scn.posS, 0) : \E uy \in DrawSet(scn.posS, 1) :
          LET x == GenRange(ux, arena.width)
              y == GenRange(uy, arena.height)
          IN  /\ arena' = IF IsFree(arena, x, y)
                          THEN AddModule(arena, x, y, "HazardLaserTurretRotate")
                          ELSE arena
              /\ rng' = Taken(<<ux, uy>>)
              /\ IF loc.n = 1 THEN RuleDone(monitor)
                 ELSE /\ loc' = [loc EXCEPT !.n = @ - 1]
                      /\ UNCHANGED <<pc, monitor>>
    /\ UNCHANGED <<scn, rules_order, env_order, sel, wfc, result, prev, vres>>

\* A lava expansion that tests the neighbour for a record and not for the
\* bounds.
ExpandLavaUnbounded(a, pos, d) ==
    LET nx == pos[1] + Directions[d][1]
        ny == pos[2] + Directions[d][2]
    IN  IF IsFree(a, nx, ny) THEN AddModule(a, nx, ny, "HazardLavaPit") ELSE a

\* enhance_lava_hazards for one lava position and the draws p (chance) and
\* d (direction): the arena it leaves
ExpandLava(a, pos, d) ==
    LET nx == pos[1] + Directions[d][1]
        ny == pos[2] + Directions[d][2]
    IN  IF IsValidPosition(a, nx, ny) /\ IsFree(a, nx, ny)
        THEN AddModule(a, nx, ny, "HazardLavaPit")
        ELSE a

\* One iteration of the loop of enhance_lava_hazards over the positions
\* collected before the loop: the 50% draw and, below it, the direction draw.
LavaExpand ==
    /\ pc = "lava_expand"
    /\ loc.list # <<>>
    /\ \E u1 \in DrawSet(scn.probS, 0) :
          IF u1 < 50
          THEN \E u2 \in DrawSet(scn.dirS, 1) :
                  /\ arena' = ExpandLava(arena, Head(loc.list), GenRange(u2, 4) + 1)
                  /\ rng' = Taken(<<u1, u2>>)
          ELSE /\ arena' = arena
               /\ rng' = Taken(<<u1>>)
    /\ IF Len(loc.list) = 1 THEN RuleDone(monitor)
       ELSE /\ loc' = [loc EXCEPT !.list = Tail(@)]
            /\ UNCHANGED <<pc, monitor>>
    /\ UNCHANGED <<scn, rules_order, env_order, sel, wfc, result, prev, vres>>

----------------------------------------------------------------------------
(* Stage 5: ArenaGenerator::place_interactive_elements *)

\* A candidate test that asks for an empty cell only.
IsSpawnableAnywhere(a, x, y) == IsFree(a, x, y)

\* find_spawnable_locations: the in-bounds positions, row by row, with no
\* record and with a walkable record on one of the four neighbours
IsSpawnable(a, x, y) ==
    /\ IsFree(a, x, y)
    /\ \E d \in 1..Len(Directions) : \E k \in 1..Len(a.modules) :
          /\ a.modules[k].module_id \in Walkable
          /\ a.modules[k].x = x + Directions[d][1]
          /\ a.modules[k].y = y + Directions[d][2]

FindSpawnableLocations(a) ==
    LET all == [i \in 1..(a.width * a.height) |->
                   <<(i - 1) % a.width, (i - 1) \div a.width>>]
    IN  SelectSeq(all, LAMBDA p : IsSpawnable(a, p[1], p[2]))

\* An orb count without the minimum of three.
OrbCountNoMinimum(a) == (a.width * a.height) \div 20

OrbCount(a) == Max((a.width * a.height) \div 20, 3)
InteractiveCount(a) == Max((a.width * a.height) \div 40, 1)

\* slice::swap on 1-based positions
Swap(s, i, j) == [s EXCEPT ![i] = s[j], ![j] = s[i]]

\* The first count pops of a list: the popped positions in pop order
Popped(list, count) ==
    [k \in 1..Min(count, Len(list)) |-> list[Len(list) + 1 - k]]

RECURSIVE AddModules(_, _, _)
AddModules(a, positions, module_id) ==
    IF positions = <<>> THEN a
    ELSE AddModules(AddModule(a, Head(positions)[1], Head(positions)[2], module_id),
                    Tail(positions), module_id)

\* The candidate positions are collected once; the shuffle walks them from
\* the back.
PlaceInit ==
    /\ pc = "place"
    /\ LET list == FindSpawnableLocations(arena)
       IN  /\ loc' = [NoLoc EXCEPT !.list = list, !.spawnable = list,
                                   !.k = Len(list) - 1]
           /\ pc' = IF Len(list) <= 1 THEN "orbs" ELSE "shuffle"
    /\ UNCHANGED <<scn, rules_order, env_order, arena, monitor, sel, wfc, result, rng, prev, vres>>

\* One step of SliceRandom::shuffle: for i from len-1 down to 1,
\* swap(i, gen_range(0..i+1))
ShuffleStep ==
    /\ pc = "shuffle"
    /\ loc.k >= 1
    /\ \E u \in DrawSet(scn.shufS, 0) :
          /\ loc' = [loc EXCEPT !.list = Swap(@, loc.k + 1, GenRange(u, loc.k + 1) + 1),
                                !.k = @ - 1]
          /\ rng' = Taken(<<u>>)
    /\ pc' = IF loc.k = 1 THEN "orbs" ELSE "shuffle"
    /\ UNCHANGED <<scn, rules_order, env_order, arena, monitor, sel, wfc, result, prev, vres>>

\* The orb loop: orb_count pops from the back of the shuffled list, an orb
\* at each, stopping when the list is empty.  It draws nothing.
PlaceOrbs ==
    /\ pc = "orbs"
    /\ LET got == Popped(loc.list, OrbCount(arena))
       IN  /\ arena' = AddModules(arena, got, "OrbEnergy")
           /\ loc' = [loc EXCEPT !.list = SubSeq(@, 1, Len(@) - Len(got)),
                                 !.n = InteractiveCount(arena),
                                 !.exhausted = Len(got) < OrbCount(arena)]
    /\ pc' = "interactive"
    /\ UNCHANGED <<scn, rules_order, env_order, monitor, sel, wfc, result, rng, prev, vres>>

\* match self.rng.gen_range(0..3)
InteractiveElement(u) ==
    CASE GenRange(u, 3) = 0 -> "InteractButtonFloor"
      [] GenRange(u, 3) = 1 -> "InteractLever"
      [] OTHER -> "InteractBarrierEnergy"

\* One iteration of the interactive loop: a pop and the draw of the element,
\* or the break when the list is empty.
PlaceInteractive ==
    /\ pc = "interactive"
    /\ loc.n > 0
    /\ IF loc.list # <<>>
       THEN \E u \in DrawSet(scn.kindS, 0) :
               LET pos == loc.list[Len(loc.list)]
               IN  /\ arena' = AddModule(arena, pos[1], pos[2], InteractiveElement(u))
                   /\ loc' = [loc EXCEPT !.list = SubSeq(@, 1, Len(@) - 1), !.n = @ - 1]
                   /\ rng' = Taken(<<u>>)
                   /\ pc' = IF loc.n = 1 THEN "balance" ELSE "interactive"
       ELSE /\ loc' = [loc EXCEPT !.exhausted = TRUE, !.n = 0]
            /\ pc' = "balance"
            /\ UNCHANGED <<arena, rng>>
    /\ UNCHANGED <<scn, rules_order, env_order, monitor, sel, wfc, result, prev, vres>>

----------------------------------------------------------------------------
(* Stage 6: ArenaGenerator::balance_arena *)

MaxAttempts == 100

RequiredWalkable(a) == (a.width * a.height) \div 3

\* The end of one iteration of `for _ in 0..needed`: the next search, or the
\* Info report after the last one.
SearchDone ==
    IF loc.n = 1
    THEN /\ monitor' = ReportAnomaly(monitor, "BALANCE", "Info",
                                     <<"added_floor_tiles", loc.needed>>)
         /\ loc' = [loc EXCEPT !.n = 0, !.attempt = 0]
         /\ pc' = "validate"
    ELSE /\ loc' = [loc EXCEPT !.n = @ - 1, !.attempt = 0]
         /\ UNCHANGED <<pc, monitor>>

\* The walkable count against a third of the cells
BalanceInit ==
    /\ pc = "balance"
    /\ LET walkable_count == CountModules(arena, Walkable)
       IN  IF walkable_count < RequiredWalkable(arena)
           THEN /\ loc' = [loc EXCEPT !.needed = RequiredWalkable(arena) - walkable_count,
                                      !.n = RequiredWalkable(arena) - walkable_count,
                                      !.attempt = 0]
                /\ pc' = "free"
           ELSE /\ loc' = loc
                /\ pc' = "validate"
    /\ UNCHANGED <<scn, rules_order, env_order, arena, monitor, sel, wfc, result, rng, prev, vres>>

\* One attempt of find_free_position: a drawn position; a free one gets a
\* standard floor, the hundredth occupied one ends the search with nothing
\* added.
FindFreePosition ==
    /\ pc = "free"
    /\ loc.n > 0
    /\ \E ux \in DrawSet(scn.posS, 0) : \E uy \in DrawSet(scn.posS, 1) :
          LET x == GenRange(ux, arena.width)
              y == GenRange(uy, arena.height)
          IN  /\ rng' = Taken(<<ux, uy>>)
              /\ IF IsFree(arena, x, y)
                 THEN /\ arena' = AddModule(arena, x, y, "FloorStd")
                      /\ SearchDone
                 ELSE /\ arena' = arena
                      /\ IF loc.attempt + 1 = MaxAttempts
                         THEN SearchDone
                         ELSE /\ loc' = [loc EXCEPT !.attempt = @ + 1]
                              /\ UNCHANGED <<pc, monitor>>
    /\ UNCHANGED <<scn, rules_order, env_order, sel, wfc, result, prev, vres>>

----------------------------------------------------------------------------
(* The anomaly monitor's checks: monitoring/mod.rs.  Messages are tuples of
   a tag and the values the format string prints. *)

RECURSIVE ReportAll(_, _, _, _)
ReportAll(m, category, severity, messages) ==
    IF messages = <<>> THEN m
    ELSE ReportAll(ReportAnomaly(m, category, severity, Head(messages)),
                   category, severity, Tail(messages))

HasPlayer(a) == \E k \in 1..Len(a.modules) : a.modules[k].module_id = "Player"

\* A structural validation whose only expectation is the player spawn.
ValidatePlayerOnly(a) ==
    IF ~HasPlayer(a) THEN <<<<"no_player_spawn">>>> ELSE <<>>

\* Arena::validate_structural_integrity: the issues, in order
ValidateStructuralIntegrity(a) ==
    (IF ~HasPlayer(a) THEN <<<<"no_player_spawn">>>> ELSE <<>>)
    \o (IF CountModules(a, Walkable) < 3
        THEN <<<<"insufficient_walkable", CountModules(a, Walkable)>>>> ELSE <<>>)
    \o (IF CountModules(a, {"OrbEnergy"}) = 0 THEN <<<<"no_energy_orbs">>>> ELSE <<>>)

\* The records outside the arena, in list order
OutOfBounds(a) ==
    SelectSeq(a.modules, LAMBDA c : ~IsValidPosition(a, c.x, c.y))

\* AnomalyMonitor::check_structural_integrity
CheckStructuralIntegrity(m, a) ==
    LET out == OutOfBounds(a)
    IN  ReportAll(ReportAll(m, "STRUCTURAL", "Critical", ValidateStructuralIntegrity(a)),
                  "BOUNDS", "Critical",
                  [k \in 1..Len(out) |->
                      <<"outside_bounds", out[k].x, out[k].y, a.width, a.height>>])

\* The conflict loop of check_rule_compatibility: for each rule1, the later
\* rules whose id rule1.incompatible_with contains
RECURSIVE IncompatiblePairs(_)
IncompatiblePairs(rules) ==
    IF rules = <<>> THEN <<>>
    ELSE LET rule1 == Head(rules)
             hits == SelectSeq(Tail(rules), LAMBDA rule2 : rule2.id \in rule1.incompatible_with)
         IN  [k \in 1..Len(hits) |-> <<"incompatible_rules", rule1.id, hits[k].id>>]
             \o IncompatiblePairs(Tail(rules))

\* The rule-environment loop of check_rule_compatibility: the Warning of one
\* rule, if any
RuleConsistency(a, rule) ==
    CASE rule.id = "MoonGravity" ->
            IF "Gravity" \in DOMAIN a.env_variables /\ a.env_variables["Gravity"] > 5000
            THEN <<<<"moon_gravity_but_gravity", a.env_variables["Gravity"]>>>>
            ELSE <<>>
      [] rule.id = "LavaFloor" ->
            IF CountModules(a, {"HazardLavaPit"}) = 0
            THEN <<<<"lava_floor_but_no_lava">>>>
            ELSE <<>>
      [] OTHER -> <<>>

RECURSIVE RuleConsistencyAll(_, _)
RuleConsistencyAll(a, rules) ==
    IF rules = <<>> THEN <<>>
    ELSE RuleConsistency(a, Head(rules)) \o RuleConsistencyAll(a, Tail(rules))

\* AnomalyMonitor::check_rule_compatibility
CheckRuleCompatibility(m, a) ==
    ReportAll(ReportAll(m, "RULES", "Critical", IncompatiblePairs(a.active_rules)),
              "RULES", "Warning", RuleConsistencyAll(a, a.active_rules))

\* AnomalyMonitor::check_gameplay_balance.  A density is the pair
\* <<count, total_cells>>; the comparisons with 0.05, 0.3 and 0.4 are the
\* exact rational ones.
CheckGameplayBalance(m, a) ==
    LET total == a.width * a.height
        orbs == CountModules(a, {"OrbEnergy"})
        hazards == CountModules(a, Hazards)
        walkable == CountModules(a, Walkable)
        m1 == RecordMetric(m, "orb_density", <<orbs, total>>)
        m2 == IF 100 * orbs < 5 * total
              THEN ReportAnomaly(m1, "BALANCE", "Warning", <<"low_orb_density", orbs, total>>)
              ELSE IF 10 * orbs > 3 * total
              THEN ReportAnomaly(m1, "BALANCE", "Info", <<"high_orb_density", orbs, total>>)
              ELSE m1
        m3 == RecordMetric(m2, "hazard_density", <<hazards, total>>)
        m4 == IF 10 * hazards > 4 * total
              THEN ReportAnomaly(m3, "BALANCE", "Warning", <<"excessive_hazard_density", hazards, total>>)
              ELSE m3
        m5 == RecordMetric(m4, "walkable_ratio", <<walkable, total>>)
    IN  IF 10 * walkable < 3 * total
        THEN ReportAnomaly(m5, "BALANCE", "Critical", <<"insufficient_walkable_area", walkable, total>>)
        ELSE m5

\* The integer square root, by bisection on lo..hi
RECURSIVE IsqrtIn(_, _, _)
IsqrtIn(n, lo, hi) ==
    IF lo = hi THEN lo
    ELSE LET mid == (lo + hi + 1) \div 2
         IN  IF mid * mid <= n THEN IsqrtIn(n, mid, hi) ELSE IsqrtIn(n, lo, mid - 1)

\* sqrt(dx*dx + dy*dy) in thousandths, rounded down
Distance(p, q) ==
    IsqrtIn(((p[1] - q[1]) * (p[1] - q[1]) + (p[2] - q[2]) * (p[2] - q[2])) * 1000000,
            0, 40000)

\* The inner loop of calculate_average_distance: the distances from
\* position i to the positions j, j + 1, ...
RECURSIVE RowDistance(_, _, _)
RowDistance(positions, i, j) ==
    IF j > Len(positions) THEN 0
    ELSE Distance(positions[i], positions[j]) + RowDistance(positions, i, j + 1)

\* The outer loop: total_distance over the pairs i < j, from i on
RECURSIVE TotalDistance(_, _)
TotalDistance(positions, i) ==
    IF i >= Len(positions) THEN 0
    ELSE RowDistance(positions, i, i + 1) + TotalDistance(positions, i + 1)

\* calculate_average_distance(positions) < 2.0, for two positions or more:
\* the total over the n(n-1)/2 pairs against twice their number
TooClustered(positions) ==
    TotalDistance(positions, 1) < 2000 * ((Len(positions) * (Len(positions) - 1)) \div 2)

\* check_spatial_clustering for one hazard type: the Warning, if any
Clustering(a, id) ==
    LET cells == SelectSeq(a.modules, LAMBDA c : c.module_id = id)
    IN  IF Len(cells) > 1 /\ TooClustered([k \in 1..Len(cells) |-> <<cells[k].x, cells[k].y>>])
        THEN <<<<"too_clustered", id>>>>
        ELSE <<>>

\* AnomalyMonitor::check_module_distribution
CheckModuleDistribution(m, a) ==
    LET m1 == ReportAll(m, "SPATIAL", "Warning",
                        Clustering(a, "HazardLavaPit")
                        \o Clustering(a, "HazardLaserEmitterStatic"))
        m2 == IF ~HasPlayer(a)
              THEN ReportAnomaly(m1, "MODULES", "Critical", <<"player_module_missing">>)
              ELSE m1
        teleporter_in == CountModules(a, {"MoveTeleporterIn"})
        teleporter_out == CountModules(a, {"MoveTeleporterOut"})
    IN  IF teleporter_in # teleporter_out
        THEN ReportAnomaly(m2, "MODULES", "Warning",
                           <<"unmatched_teleporters", teleporter_in, teleporter_out>>)
        ELSE m2

\* The ranges check_environmental_variables expects
ExpectedMin(id) == IF id = "Gravity" THEN 1000 ELSE 5000
ExpectedMax(id) == IF id = "Gravity" THEN 30000 ELSE 20000

\* AnomalyMonitor::check_environmental_variables, the map iterated in the
\* given order
CheckEnvironmentalVariables(m, a, order) ==
    LET set == SelectSeq(order, LAMBDA id : id \in DOMAIN a.env_variables)
        out == SelectSeq(set, LAMBDA id : \/ a.env_variables[id] < ExpectedMin(id)
                                          \/ a.env_variables[id] > ExpectedMax(id))
        m1 == ReportAll(m, "ENVIRONMENT", "Warning",
                        [k \in 1..Len(out) |->
                            <<"outside_expected_range", out[k], a.env_variables[out[k]]>>])
    IN  IF "Gravity" \notin DOMAIN a.env_variables
        THEN ReportAnomaly(m1, "ENVIRONMENT", "Critical", <<"gravity_not_set">>)
        ELSE m1

\* A count of the neighbours that hold a walkable record, first or not.
CountAdjacentAnyWalkable(a, x, y) ==
    Cardinality({d \in 1..Len(Directions) :
        \E k \in 1..Len(a.modules) :
           /\ a.modules[k].x = x + Directions[d][1]
           /\ a.modules[k].y = y + Directions[d][2]
           /\ a.modules[k].module_id \in Walkable})

\* AnomalyMonitor::count_adjacent_walkable: the neighbours whose first
\* record is walkable
CountAdjacentWalkable(a, x, y) ==
    Cardinality({d \in 1..Len(Directions) :
        GetCell(a, x + Directions[d][1], y + Directions[d][2]) \in Walkable})

\* The types flood_fill_reachable pushes a neighbour for
FloodTraversable ==
    {"FloorStd", "FloorLarge", "RampSteep", "OrbEnergy", "InteractButtonFloor"}

\* The loop of AnomalyMonitor::flood_fill_reachable: pop a position, skip it
\* if visited, else visit it and push the unvisited neighbours whose first
\* record is traversable.  The start is visited whatever it holds.
RECURSIVE FloodFillStack(_, _, _)
FloodFillStack(a, stack, visited) ==
    IF stack = <<>> THEN visited
    ELSE LET p == stack[Len(stack)]
             rest == SubSeq(stack, 1, Len(stack) - 1)
         IN  IF p \in visited THEN FloodFillStack(a, rest, visited)
             ELSE LET v == visited \cup {p}
                      neighbours == [d \in 1..Len(Directions) |->
                                        <<p[1] + Directions[d][1], p[2] + Directions[d][2]>>]
                      push == SelectSeq(neighbours, LAMBDA q :
                                  /\ q \notin v
                                  /\ GetCell(a, q[1], q[2]) \in FloodTraversable)
                  IN  FloodFillStack(a, rest \o push, v)

\* AnomalyMonitor::flood_fill_reachable(arena, start)
FloodFillReachable(a, start) == FloodFillStack(a, <<start>>, {})

\* The unreachable_orbs of check_reachability: the orb records whose position
\* the flood fill from the first player record does not visit; none without
\* a player
UnreachableOrbs(a) ==
    LET players == SelectSeq(a.modules, LAMBDA c : c.module_id = "Player")
    IN  IF players = <<>> THEN <<>>
        ELSE LET reachable == FloodFillReachable(a, <<players[1].x, players[1].y>>)
             IN  SelectSeq(a.modules, LAMBDA c :
                     /\ c.module_id = "OrbEnergy"
                     /\ <<c.x, c.y>> \notin reachable)

\* A check_reachability whose report is not commented out.
CheckReachabilityReporting(m, a) ==
    IF Len(UnreachableOrbs(a)) > 0
    THEN ReportAnomaly(m, "REACHABILITY", "Critical",
                       <<"orbs_unreachable", Len(UnreachableOrbs(a))>>)
    ELSE m

\* AnomalyMonitor::check_reachability: unreachable_orbs is counted and the
\* report that would use it is commented out
CheckReachability(m, a) ==
    LET unreachable_orbs == Len(UnreachableOrbs(a))
    IN  m

\* AnomalyMonitor::check_spatial_coherence: a Critical anomaly per isolated
\* orb or floor button, then check_reachability
CheckSpatialCoherence(m, a) ==
    LET isolated == SelectSeq(a.modules, LAMBDA c :
                        /\ c.module_id \in {"OrbEnergy", "InteractButtonFloor"}
                        /\ CountAdjacentWalkable(a, c.x, c.y) = 0)
    IN  CheckReachability(
            ReportAll(m, "SPATIAL", "Critical",
                      [k \in 1..Len(isolated) |->
                          <<"isolated", isolated[k].module_id, isolated[k].x, isolated[k].y>>]),
            a)

\* AnomalyMonitor::validate_arena
ValidateArena(m, a, order) ==
    CheckSpatialCoherence(
      CheckEnvironmentalVariables(
        CheckModuleDistribution(
          CheckGameplayBalance(
            CheckRuleCompatibility(
              CheckStructuralIntegrity(m, a), a), a), a), a, order), a)

\* AnomalyMonitor::check_generation_time for an elapsed time in ms
CheckGenerationTime(m, elapsed) ==
    IF ~m.started THEN m
    ELSE LET m1 == RecordMetric(m, "generation_time_ms", <<elapsed, 1>>)
         IN  IF elapsed > 5000
             THEN ReportAnomaly(m1, "PERFORMANCE", "Warning", <<"took", elapsed, "expected_lt_5s">>)
             ELSE IF elapsed > 10000
             THEN ReportAnomaly(m1, "PERFORMANCE", "Critical", <<"took", elapsed, "critically_slow">>)
             ELSE m1

\* The end of generate_with_monitoring: the elapsed time goes into the
\* metadata, the monitor validates the arena and checks the time, and the
\* call bails if the monitor holds a Critical anomaly.
Finish ==
    /\ pc = "validate"
    /\ \E elapsed \in scn.elapsedS : \E order \in EnvOrders :
          LET a == [arena EXCEPT !.generation_time_ms = elapsed]
              m == CheckGenerationTime(ValidateArena(monitor, a, order), elapsed)
          IN  /\ arena' = a
              /\ monitor' = m
              /\ result' = IF HasCriticalAnomalies(m) THEN "err" ELSE "ok"
    /\ pc' = "done"
    /\ UNCHANGED <<scn, rules_order, env_order, sel, wfc, loc, rng, prev, vres>>

----------------------------------------------------------------------------
(* Rule selection on its own: every rule count up to MaxRuleCount *)

SelectScenarios ==
    {[Scenario(1, c, 0) EXCEPT !.ruleS = {0, 55, 97}] : c \in 0..MaxRuleCount}

InitSelect == InitGenerator(SelectScenarios, "off")
NextSelect == Generate \/ SelectRule
SpecSelect == InitSelect /\ [][NextSelect]_vars

\* select_compatible_rules has returned
SelectReturned == pc = "env"

\* The rule ids an active rule list excludes: everything its rules list.
ExcludedBy(rules) == UNION {rules[k].incompatible_with : k \in 1..Len(rules)}

\* The Warning anomalies of an early end of rule selection.
SelectionWarnings ==
    SelectSeq(monitor.anomalies, LAMBDA a :
        a.category = "RULES" /\ a.severity = "Warning"
        /\ a.message[1] = "could_only_select")

C10_SelectionCount ==
    SelectReturned =>
        LET rules == arena.active_rules
            short == Len(rules) < scn.count
        IN  /\ Len(rules) <= scn.count
            /\ \A a, b \in 1..Len(rules) : a # b => rules[a].id # rules[b].id
            /\ Len(SelectionWarnings) = (IF short THEN 1 ELSE 0)
            /\ short =>
                 /\ SelectionWarnings[1].message = <<"could_only_select", Len(rules), scn.count>>
                 /\ AvailableRules(GetAllRules(rules_order), rules, ExcludedBy(rules)) = <<>>
            /\ result = "none"

\* C10 witness: a selection that ended early with some rules selected.
C10_Witness ==
    /\ SelectReturned
    /\ Len(arena.active_rules) >= 1
    /\ Len(arena.active_rules) < scn.count
    /\ Len(SelectionWarnings) = 1

----------------------------------------------------------------------------
(* The whole of generate_with_monitoring *)

Pipeline ==
    \/ Generate
    \/ SelectRule
    \/ ConfigureEnvironment
    \/ InitLayout
    \/ WfcFill
    \/ EnforceLava
    \/ EnforceOrbs
    \/ WriteLayout
    \/ ApplyRule
    \/ ProjectileHazard
    \/ LavaExpand
    \/ PlaceInit
    \/ ShuffleStep
    \/ PlaceOrbs
    \/ PlaceInteractive
    \/ BalanceInit
    \/ FindFreePosition
    \/ Finish

\* Calls with no rule on arenas up to MaxSize: the first four cells of the
\* fill are free to be filled or not, with a floor or a static laser.
LayoutScenarios ==
    {[Scenario(size, 0, 0) EXCEPT !.free = 0..3, !.fillS = {0, 97},
                                  !.typeS = {0, 99}, !.posS = {0, 70},
                                  !.shufS = {0, 70}, !.kindS = {0, 55, 97},
                                  !.elapsedS = {0, 6000, 11000}] : size \in 1..MaxSize}

\* Calls with one rule, any of the catalog, on a layout of three floors.
RuleScenarios ==
    {[Scenario(size, 1, 0) EXCEPT !.ruleS = {0, 12, 25, 37, 50, 62, 75, 87, 97},
                                  !.solid = {1, 4, 7}, !.posS = {0, 70},
                                  !.minS = {0, 70},
                                  !.cntS = {0, 97}, !.probS = {0, 70},
                                  !.dirS = {0, 30, 55, 80}] : size \in 2..MaxSize}

\* A call generate(6, 1, seed) that selects Orb Collection and whose fill
\* leaves no cell empty: eleven standard floors, then twenty-five lava pits.
FullGridScenario ==
    [Scenario(6, 1, 0) EXCEPT !.ruleS = {87}, !.solid = 0..35, !.hazard = 11..35,
                              !.posS = {0, 30, 55, 70, 97}]

\* A call generate(3, 1, seed) that selects Lava Floor, whose layout is the
\* middle column of floors and whose two min_lava_pits records both land on
\* the floor of the centre cell.
LavaOnFloorScenario ==
    [Scenario(3, 1, 0) EXCEPT !.ruleS = {62}, !.solid = {1, 4, 7}, !.minS = {50},
                              !.probS = {0, 70}, !.dirS = {0, 30, 55, 80}]

\* A generator whose catalogs iterate in declaration order.
InitGen ==
    /\ InitGenerator(LayoutScenarios \cup RuleScenarios
                     \cup {FullGridScenario, LavaOnFloorScenario}, "off")
    /\ rules_order = RuleDeclOrder
    /\ env_order = EnvDeclOrder

SpecGen == InitGen /\ [][Pipeline]_vars

Returned == pc = "done"
Succeeded == pc = "done" /\ result = "ok"
Failed == pc = "done" /\ result = "err"

SeverityCount(m, severity) ==
    Cardinality({k \in 1..Len(m.anomalies) : m.anomalies[k].severity = severity})

\* C1: generate_with_monitoring returns an error exactly when the monitor
\* holds a Critical anomaly after validate_arena and check_generation_time;
\* otherwise it returns the arena, Warning and Info anomalies or not.
C1_ErrorIffCritical ==
    /\ Returned => result \in {"ok", "err"}
    /\ Failed <=> (Returned /\ SeverityCount(monitor, "Critical") > 0)
    /\ result # "none" => Returned

\* A call that succeeds with a Warning and an Info anomaly in the monitor.
C1_Witness ==
    /\ Succeeded
    /\ SeverityCount(monitor, "Warning") > 0
    /\ SeverityCount(monitor, "Info") > 0
    /\ SeverityCount(monitor, "Critical") = 0

\* C3: every arena returned by a successful generation holds exactly one
\* record of type Player.
C3_ExactlyOnePlayer == Succeeded => CountModules(arena, {"Player"}) = 1

\* A successful call whose layout had a safe floor: the player record shares
\* the position of a floor record.
C3_Witness ==
    /\ Succeeded
    /\ \E k, j \in 1..Len(arena.modules) :
          /\ arena.modules[k].module_id = "Player"
          /\ arena.modules[j].module_id \in {"FloorStd", "FloorLarge"}
          /\ arena.modules[j].x = arena.modules[k].x
          /\ arena.modules[j].y = arena.modules[k].y

InteractiveElements == {"InteractButtonFloor", "InteractLever", "InteractBarrierEnergy"}

\* Stage 5 found enough candidate cells for every orb and interactive
\* element it had to place.
NotExhausted ==
    Len(loc.spawnable) >= Max((arena.width * arena.height) \div 20, 3)
                          + Max((arena.width * arena.height) \div 40, 1)

\* C5 as stated: whatever rules were selected, a generated w x h arena has
\* max(w*h/20, 3) orb records and max(w*h/40, 1) interactive records unless
\* stage 5 ran out of candidates.
C5_CountsWhateverRules ==
    (Succeeded /\ NotExhausted) =>
        /\ CountModules(arena, {"OrbEnergy"}) = Max((arena.width * arena.height) \div 20, 3)
        /\ CountModules(arena, InteractiveElements) = Max((arena.width * arena.height) \div 40, 1)

\* C5 (amended): unless stage 5 ran out of candidates, a generated w x h
\* arena has max(w*h/40, 1) interactive records and max(w*h/20, 3) orb
\* records, plus the five orbs the layout filler adds when Orb Collection is
\* active.
C5_CountsWithOrbCollection ==
    (Succeeded /\ NotExhausted) =>
        /\ CountModules(arena, {"OrbEnergy"})
              = Max((arena.width * arena.height) \div 20, 3)
                + (IF HasRule(arena, "OrbCollection") THEN 5 ELSE 0)
        /\ CountModules(arena, InteractiveElements) = Max((arena.width * arena.height) \div 40, 1)

\* A successful call with Orb Collection active whose stage 5 placed every
\* orb and interactive element.
C5_Witness ==
    /\ Succeeded
    /\ NotExhausted
    /\ ~loc.exhausted
    /\ HasRule(arena, "OrbCollection")
    /\ CountModules(arena, {"OrbEnergy"}) = 8

\* C4: every successful generation of a w x h arena leaves at least
\* floor(w*h/3) records of a walkable type, also when the search for a free
\* cell failed for some of the floors the balancing stage had to add.
C4_WalkableFloor ==
    Succeeded => CountModules(arena, Walkable) >= (arena.width * arena.height) \div 3

----------------------------------------------------------------------------
(* Two calls with the same arguments and the same seed, each on a generator
   built afresh.  The first call records the raw draws of its StdRng; the
   second generator, seeded alike, sees the same stream.  The catalogs of
   the second generator are rebuilt into new hash maps, which iterate in an
   order of their own. *)

\* ArenaGenerator::new(Some(seed)) and AnomalyMonitor::new() once more, after
\* the first call has returned
Rebuild ==
    /\ pc = "done"
    /\ rng.mode = "record"
    /\ prev' = [ok |-> result = "ok", arena |-> arena]
    /\ rules_order' \in RuleOrders
    /\ env_order' \in EnvOrders
    /\ rng' = [rng EXCEPT !.pos = 0, !.mode = "replay"]
    /\ arena' = NewArena(0, 0, 0)
    /\ monitor' = NewMonitor
    /\ sel' = NoSel
    /\ wfc' = NoWfc
    /\ loc' = NoLoc
    /\ result' = "none"
    /\ pc' = "idle"
    /\ UNCHANGED <<scn, vres>>

\* Calls with one rule on a layout of three floors, on arenas of 3x3 and up.
DetScenarios ==
    {[Scenario(size, 1, 0) EXCEPT !.ruleS = {0, 62, 75, 87},
                                  !.solid = {1, 4, 7}] : size \in 3..(MaxSize + 1)}

InitDet == InitGenerator(DetScenarios, "record")
NextDet == Pipeline \/ Rebuild
SpecDet == InitDet /\ [][NextDet]_vars

ModuleSet(a) == Range(a.modules)
RuleSet(a) == {a.active_rules[k].id : k \in 1..Len(a.active_rules)}

\* Both calls have returned a grid.
BothSucceeded == pc = "done" /\ rng.mode = "replay" /\ result = "ok" /\ prev.ok

\* C2: two runs with the same size, rule count and seed, each on a freshly
\* built generator, produce grids with the same module set, the same active
\* rule set and the same environment values.
C2_Determinism ==
    BothSucceeded =>
        /\ ModuleSet(arena) = ModuleSet(prev.arena)
        /\ RuleSet(arena) = RuleSet(prev.arena)
        /\ arena.env_variables = prev.arena.env_variables

----------------------------------------------------------------------------
(* Validation of a grid built by hand: Arena::new, then add_module and
   pushes onto the public active_rules and env_variables, then
   AnomalyMonitor::validate_arena on a fresh monitor. *)

ManualSize == 2
MaxManualModules == 2
MaxManualRules == 2

\* Two cells inside a ManualSize x ManualSize arena and two outside, one on
\* each side.
ManualPositions == {<<0, 0>>, <<1, 0>>, <<-1, 0>>, <<0, ManualSize>>}
ManualModules == {"Player", "FloorStd", "OrbEnergy"}
ManualRules == {"NoJump", "MoonGravity", "LavaFloor"}
ManualGravity == {3000, 10000}

\* MutationEngine::create_rule_from_id: a rule that declares nothing
CreateRuleFromId(id) == [id |-> id, tags |-> {}, incompatible_with |-> {}]

InitValidate ==
    /\ scn = Scenario(ManualSize, 0, 0)
    /\ pc = "manual"
    /\ rules_order = RuleDeclOrder
    /\ env_order = EnvDeclOrder
    /\ arena = NewArena(ManualSize, ManualSize, 0)
    /\ monitor = NewMonitor
    /\ sel = NoSel
    /\ wfc = NoWfc
    /\ loc = NoLoc
    /\ result = "none"
    /\ rng = [tape |-> <<>>, pos |-> 0, mode |-> "off"]
    /\ prev = NoPrev
    /\ vres = NoResult

\* arena.add_module(x, y, module_id, None), inside the arena or not
ManualAddModule ==
    /\ pc = "manual"
    /\ Len(arena.modules) < MaxManualModules
    /\ \E p \in ManualPositions : \E id \in ManualModules :
          arena' = AddModule(arena, p[1], p[2], id)
    /\ UNCHANGED <<scn, pc, rules_order, env_order, monitor, sel, wfc, loc, result, rng, prev, vres>>

\* arena.active_rules.push(rule): the catalog's rule, or one that carries no
\* declaration as create_rule_from_id builds it; no id twice
ManualPushRule ==
    /\ pc = "manual"
    /\ Len(arena.active_rules) < MaxManualRules
    /\ \E id \in ManualRules : \E declared \in BOOLEAN :
          /\ ~HasRule(arena, id)
          /\ arena' = [arena EXCEPT !.active_rules =
                          Append(@, IF declared THEN CatalogRule(id) ELSE CreateRuleFromId(id))]
    /\ UNCHANGED <<scn, pc, rules_order, env_order, monitor, sel, wfc, loc, result, rng, prev, vres>>

\* arena.env_variables.insert(EnvVarId::Gravity, value)
ManualSetGravity ==
    /\ pc = "manual"
    /\ "Gravity" \notin DOMAIN arena.env_variables
    /\ \E value \in ManualGravity :
          arena' = [arena EXCEPT !.env_variables = EnvInsert(@, "Gravity", value)]
    /\ UNCHANGED <<scn, pc, rules_order, env_order, monitor, sel, wfc, loc, result, rng, prev, vres>>

\* monitor.validate_arena(&arena)
Validate ==
    /\ pc = "manual"
    /\ \E order \in EnvOrders : monitor' = ValidateArena(monitor, arena, order)
    /\ pc' = "validated"
    /\ UNCHANGED <<scn, rules_order, env_order, arena, sel, wfc, loc, result, rng, prev, vres>>

NextValidate == ManualAddModule \/ ManualPushRule \/ ManualSetGravity \/ Validate
SpecValidate == InitValidate /\ [][NextValidate]_vars

Validated == pc = "validated"

\* The anomalies of a category and severity, as indices
Anomalies(m, category, severity) ==
    {k \in 1..Len(m.anomalies) :
        m.anomalies[k].category = category /\ m.anomalies[k].severity = severity}

\* C7: validating a grid whose active rules contain a pair where either
\* rule lists the other as incompatible records a Critical RULES anomaly,
\* whatever the order of the pair and whichever rule carries the declaration.
C7_IncompatiblePairCritical ==
    Validated =>
        \A i, j \in 1..Len(arena.active_rules) :
            (i # j /\ arena.active_rules[j].id \in arena.active_rules[i].incompatible_with)
                => Anomalies(monitor, "RULES", "Critical") # {}

\* The records of the arena outside [0, width) x [0, height), as indices
Outside(a) ==
    {k \in 1..Len(a.modules) :
        \/ a.modules[k].x < 0 \/ a.modules[k].x >= a.width
        \/ a.modules[k].y < 0 \/ a.modules[k].y >= a.height}

PlayerRecords(a) == {k \in 1..Len(a.modules) : a.modules[k].module_id = "Player"}

\* C8: validate_arena on a grid with no Player record reports a Critical
\* from the structural check and another from the module-distribution
\* check; on a grid with records outside the arena it reports one Critical
\* BOUNDS anomaly per such record; has_critical_anomalies holds afterwards.
C8_MissingPlayerAndBounds ==
    Validated =>
        /\ PlayerRecords(arena) = {} =>
              /\ \E k \in Anomalies(monitor, "STRUCTURAL", "Critical") :
                    monitor.anomalies[k].message = <<"no_player_spawn">>
              /\ \E k \in Anomalies(monitor, "MODULES", "Critical") :
                    monitor.anomalies[k].message = <<"player_module_missing">>
              /\ HasCriticalAnomalies(monitor)
        /\ Cardinality(Anomalies(monitor, "BOUNDS", "Critical")) = Cardinality(Outside(arena))
        /\ \A i \in Outside(arena) :
              \E k \in Anomalies(monitor, "BOUNDS", "Critical") :
                  monitor.anomalies[k].message =
                      <<"outside_bounds", arena.modules[i].x, arena.modules[i].y,
                        arena.width, arena.height>>
        /\ Outside(arena) # {} => HasCriticalAnomalies(monitor)

\* A validated grid with no player and two records outside the arena, one
\* at a negative coordinate and one past the height.
C8_Witness ==
    /\ Validated
    /\ PlayerRecords(arena) = {}
    /\ \E i, j \in Outside(arena) : arena.modules[i].x < 0 /\ arena.modules[j].y >= arena.height
    /\ Cardinality(Anomalies(monitor, "BOUNDS", "Critical")) = 2

----------------------------------------------------------------------------
(* The structural validator of core/arena.rs: the connectivity check of
   validate_advanced_integrity, on grids built by hand. *)

\* ValidationResult::add_critical / add_warning / add_error
AddCritical(r, message) == [r EXCEPT !.critical = Append(@, message)]
AddWarning(r, message) == [r EXCEPT !.warnings = Append(@, message)]
AddError(r, message) == [r EXCEPT !.errors = Append(@, message)]

\* Arena::get_player_position: the position of the first Player record, or
\* <<>> for None
GetPlayerPosition(a) ==
    LET players == SelectSeq(a.modules, LAMBDA c : c.module_id = "Player")
    IN  IF players = <<>> THEN <<>> ELSE <<players[1].x, players[1].y>>

\* Arena::get_adjacent_positions: the valid ones of the four neighbours, in
\* the order of the vec!
GetAdjacentPositions(a, x, y) ==
    SelectSeq(<<<<x + 1, y>>, <<x - 1, y>>, <<x, y + 1>>, <<x, y - 1>>>>,
              LAMBDA p : IsValidPosition(a, p[1], p[2]))

\* A traversable set that leaves the orb out.
TraversableWithoutOrb ==
    {"FloorStd", "FloorLarge", "RampSteep", "RampLow", "InteractButtonFloor"}

\* The types get_reachable_positions walks onto
Traversable ==
    {"FloorStd", "FloorLarge", "RampSteep", "RampLow", "OrbEnergy", "InteractButtonFloor"}

\* The loop of get_reachable_positions over the queue
RECURSIVE ReachFrom(_, _, _)
ReachFrom(a, queue, visited) ==
    IF queue = <<>> THEN visited
    ELSE LET p == Head(queue)
         IN  IF p \in visited THEN ReachFrom(a, Tail(queue), visited)
             ELSE LET v == visited \cup {p}
                      push == SelectSeq(GetAdjacentPositions(a, p[1], p[2]),
                                  LAMBDA q : /\ q \notin v
                                             /\ GetCell(a, q[1], q[2]) \in Traversable)
                  IN  ReachFrom(a, Tail(queue) \o push, v)

\* Arena::get_reachable_positions(start)
GetReachablePositions(a, start) == ReachFrom(a, <<start>>, {})

\* Arena::get_interactive_elements, as a set of types
InteractiveTypes ==
    {"InteractButtonFloor", "InteractButtonWall", "InteractLever",
     "InteractBarrierEnergy", "MoveTeleporterIn", "MoveTeleporterOut"}

\* Arena::check_connectivity
CheckConnectivity(r, a) ==
    IF GetPlayerPosition(a) = <<>>
    THEN AddCritical(r, <<"cannot_check_connectivity">>)
    ELSE LET reachable == GetReachablePositions(a, GetPlayerPosition(a))
             orbs == SelectSeq(a.modules, LAMBDA c : c.module_id = "OrbEnergy")
             unreachable_orbs == SelectSeq(orbs, LAMBDA c : <<c.x, c.y>> \notin reachable)
             interactive == SelectSeq(a.modules, LAMBDA c : c.module_id \in InteractiveTypes)
             unreachable_interactive ==
                 SelectSeq(interactive, LAMBDA c : <<c.x, c.y>> \notin reachable)
             total == Len(orbs) + Len(interactive)
             reachable_important == total - Len(unreachable_orbs) - Len(unreachable_interactive)
             r1 == IF unreachable_orbs # <<>>
                   THEN AddCritical(r, <<"orbs_unreachable", Len(unreachable_orbs)>>)
                   ELSE r
             r2 == IF unreachable_interactive # <<>>
                   THEN AddWarning(r1, <<"interactive_unreachable", Len(unreachable_interactive)>>)
                   ELSE r1
         IN  IF total > 0 /\ 10 * reachable_important < 8 * total
             THEN AddError(r2, <<"low_connectivity_ratio", reachable_important, total>>)
             ELSE r2

MaxConnModules == 3

\* A 3x1 corridor and the 5x5 grid of the example
ConnArenas == {NewArena(3, 1, 0), NewArena(5, 5, 0)}
ConnPositions == {<<0, 0>>, <<1, 0>>, <<2, 0>>, <<4, 4>>}
ConnModules == {"Player", "FloorStd", "OrbEnergy", "HazardLavaPit"}

InitConn ==
    /\ scn = Scenario(1, 0, 0)
    /\ pc = "manual"
    /\ rules_order = RuleDeclOrder
    /\ env_order = EnvDeclOrder
    /\ arena \in ConnArenas
    /\ monitor = NewMonitor
    /\ sel = NoSel
    /\ wfc = NoWfc
    /\ loc = NoLoc
    /\ result = "none"
    /\ rng = [tape |-> <<>>, pos |-> 0, mode |-> "off"]
    /\ prev = NoPrev
    /\ vres = NoResult

\* arena.add_module(x, y, module_id, None) on the corridor or the 5x5 grid
ConnAddModule ==
    /\ pc = "manual"
    /\ Len(arena.modules) < MaxConnModules
    /\ \E p \in ConnPositions : \E id \in ConnModules :
          arena' = AddModule(arena, p[1], p[2], id)
    /\ UNCHANGED <<scn, pc, rules_order, env_order, monitor, sel, wfc, loc, result, rng, prev, vres>>

\* The connectivity check of validate_advanced_integrity, on a result that
\* holds no finding yet
Connectivity ==
    /\ pc = "manual"
    /\ vres' = CheckConnectivity(NoResult, arena)
    /\ pc' = "checked"
    /\ UNCHANGED <<scn, rules_order, env_order, arena, monitor, sel, wfc, loc, result, rng, prev>>

NextConn == ConnAddModule \/ Connectivity
SpecConn == InitConn /\ [][NextConn]_vars

Checked == pc = "checked"

\* The first record at a position is of a type the player can walk onto.
Enterable(a, p) ==
    \E k \in 1..Len(a.modules) :
        /\ a.modules[k].x = p[1] /\ a.modules[k].y = p[2]
        /\ \A j \in 1..(k - 1) : ~(a.modules[j].x = p[1] /\ a.modules[j].y = p[2])
        /\ a.modules[k].module_id \in
              {"FloorStd", "FloorLarge", "RampSteep", "RampLow", "OrbEnergy",
               "InteractButtonFloor"}

\* The least set holding R and closed under a 4-directional step onto an
\* enterable cell of the grid.
RECURSIVE FloodFill(_, _)
FloodFill(a, R) ==
    LET step == {q \in (0..(a.width - 1)) \X (0..(a.height - 1)) :
                    /\ Enterable(a, q)
                    /\ \E p \in R : (p[1] - q[1]) * (p[1] - q[1])
                                    + (p[2] - q[2]) * (p[2] - q[2]) = 1}
    IN  IF step \subseteq R THEN R ELSE FloodFill(a, R \cup step)

\* The cells the flood fill reaches from the first player record; none when
\* the grid has no player.
FloodFromPlayer(a) ==
    IF PlayerRecords(a) = {} THEN {}
    ELSE LET k == CHOOSE k \in PlayerRecords(a) : \A j \in PlayerRecords(a) : k <= j
         IN  FloodFill(a, {<<a.modules[k].x, a.modules[k].y>>})

OrbOutsideFlood(a) ==
    \E k \in 1..Len(a.modules) :
        /\ a.modules[k].module_id = "OrbEnergy"
        /\ <<a.modules[k].x, a.modules[k].y>> \notin FloodFromPlayer(a)

\* The 5x5 grid holding only a player at (0,0) and an orb at (4,4)
ExampleGrid ==
    /\ arena.width = 5 /\ arena.height = 5
    /\ arena.modules = <<Cell(0, 0, "Player"), Cell(4, 4, "OrbEnergy")>>

\* C9 as stated: the connectivity check reports a critical finding exactly
\* when some orb lies outside the cells the flood fill reaches from the
\* player; the example grid gets that finding.
C9_CriticalIffOrbUnreachable ==
    Checked =>
        /\ vres.critical # <<>> <=> OrbOutsideFlood(arena)
        /\ ExampleGrid => vres.critical # <<>>

\* C9 (amended): on a grid with a player record the connectivity check
\* reports its one critical finding, counting the orbs, exactly when some
\* orb lies outside the cells the flood fill reaches from the player; on a
\* grid without a player it always reports a critical finding, orbs or not;
\* the example grid gets the finding for its one orb.
C9_CriticalIffOrbUnreachableOrNoPlayer ==
    Checked =>
        /\ PlayerRecords(arena) # {} =>
              /\ vres.critical # <<>> <=> OrbOutsideFlood(arena)
              /\ Len(vres.critical) <= 1
              /\ \A k \in 1..Len(vres.critical) : vres.critical[k][1] = "orbs_unreachable"
        /\ PlayerRecords(arena) = {} => vres.critical = <<<<"cannot_check_connectivity">>>>
        /\ ExampleGrid => vres.critical = <<<<"orbs_unreachable", 1>>>>

\* The example grid, checked.
C9_Witness == Checked /\ ExampleGrid /\ vres.critical = <<<<"orbs_unreachable", 1>>>>


----------------------------------------------------------------------------
(* The player spawn of stage 3 *)

\* generate_base_layout has just returned: the layout is written and the
\* player record, the last one, is in.
LayoutWritten == pc \in {"rules", "place"} /\ loc = NoLoc

\* The records of the arena a before the last one.
BeforeLast(a) == [a EXCEPT !.modules = SubSeq(@, 1, Len(@) - 1)]

\* find_safe_spawn_location found a floor it takes for safe, and did not
\* fall back to the centre.
SafeFloorFound(a) ==
    \E k \in 1..Len(a.modules) :
        /\ a.modules[k].module_id \in {"FloorStd", "FloorLarge"}
        /\ ~HasAdjacentHazard(a, a.modules[k].x, a.modules[k].y)

\* Some record at (x, y) is a hazard.
HoldsHazard(a, x, y) ==
    \E k \in 1..Len(a.modules) :
        /\ a.modules[k].x = x
        /\ a.modules[k].y = y
        /\ a.modules[k].module_id \in Hazards

\* C14: when generate_base_layout has inserted the player spawn without the
\* centre fallback, the spawn's cell holds no other record and none of its
\* four orthogonal neighbours holds a hazard record.
C14_SpawnOnSafeFreeCell ==
    LayoutWritten /\ SafeFloorFound(BeforeLast(arena)) =>
        LET spawn == arena.modules[Len(arena.modules)]
        IN  /\ spawn.module_id = "Player"
            /\ IsFree(BeforeLast(arena), spawn.x, spawn.y)
            /\ \A d \in 1..Len(Directions) :
                  ~HoldsHazard(arena, spawn.x + Directions[d][1], spawn.y + Directions[d][2])

----------------------------------------------------------------------------
(* The records stage 4 adds *)

\* apply_rule_modifications has returned.
RulesApplied ==
    pc \in {"place", "shuffle", "orbs", "interactive", "balance", "free", "validate", "done"}

\* The index of the player record, the last record of stage 3.
PlayerIndex(a) == CHOOSE k \in 1..Len(a.modules) : a.modules[k].module_id = "Player"

\* Record k of a was added at a position no earlier record had.
AddedOnFreeCell(a, k) ==
    \A j \in 1..(k - 1) : ~(a.modules[j].x = a.modules[k].x /\ a.modules[j].y = a.modules[k].y)

\* The indices of the records of a type that stage 4 added to a.
AddedByRules(a, id) ==
    {k \in (PlayerIndex(a) + 1)..Len(a.modules) : a.modules[k].module_id = id}

Adjacent(c, d) ==
    \E n \in 1..Len(Directions) : c.x + Directions[n][1] = d.x /\ c.y + Directions[n][2] = d.y

\* C15: after stage 4, with Projectile Rain active the arena has gained
\* between 2 and 4 rotating turrets, each on a cell that was free; with Lava
\* Floor active every lava pit the stage added is in bounds, on a cell that
\* was free, and orthogonally adjacent to a lava pit of the layout.
C15_RuleModifications ==
    RulesApplied =>
        /\ HasRule(arena, "ProjectileRain") =>
              /\ Cardinality(AddedByRules(arena, "HazardLaserTurretRotate")) \in 2..4
              /\ \A k \in AddedByRules(arena, "HazardLaserTurretRotate") :
                    AddedOnFreeCell(arena, k)
        /\ HasRule(arena, "LavaFloor") =>
              \A k \in AddedByRules(arena, "HazardLavaPit") :
                 /\ IsValidPosition(arena, arena.modules[k].x, arena.modules[k].y)
                 /\ AddedOnFreeCell(arena, k)
                 /\ \E j \in 1..(PlayerIndex(arena) - 1) :
                       /\ arena.modules[j].module_id = "HazardLavaPit"
                       /\ Adjacent(arena.modules[k], arena.modules[j])

----------------------------------------------------------------------------
(* The minimum counts of the layout *)

\* generate_base_layout has returned.
LayoutDone == pc \in {"rules", "projectile", "lava_expand"} \/ RulesApplied

\* C16: once generate_base_layout has returned, an arena with Lava Floor
\* active holds at least 2 lava-pit records and one with Orb Collection
\* active at least 5 energy-orb records, and no step after the layout
\* lowers the number of lava-pit records or of energy-orb records.
C16_MinimumCounts ==
    [][/\ LayoutDone' =>
             /\ HasRule(arena', "LavaFloor") => CountModules(arena', {"HazardLavaPit"}) >= 2
             /\ HasRule(arena', "OrbCollection") => CountModules(arena', {"OrbEnergy"}) >= 5
       /\ LayoutDone =>
             /\ CountModules(arena', {"HazardLavaPit"}) >= CountModules(arena, {"HazardLavaPit"})
             /\ CountModules(arena', {"OrbEnergy"}) >= CountModules(arena, {"OrbEnergy"})]_vars

\* C16 witness: a layout just written under Lava Floor whose two lava pits
\* are the ones enforce_constraints added.
C16_Witness ==
    /\ LayoutWritten
    /\ HasRule(arena, "LavaFloor")
    /\ CountModules(arena, {"HazardLavaPit"}) = 2

----------------------------------------------------------------------------
(* One record per cell *)

\* The positions that hold more than one record of the arena a.
DuplicatePositions(a) ==
    {<<a.modules[i].x, a.modules[i].y>> : i \in
        {i \in 1..Len(a.modules) : \E j \in 1..Len(a.modules) :
            /\ i # j
            /\ a.modules[i].x = a.modules[j].x
            /\ a.modules[i].y = a.modules[j].y}}

\* C11: an arena returned by a successful generation holds at most one
\* module record per (x, y) position.
C11_OneRecordPerCell == Succeeded => DuplicatePositions(arena) = {}


----------------------------------------------------------------------------
(* The time check after validation *)

\* The PERFORMANCE anomalies of a severity in the monitor m.
PerformanceAnomalies(m, severity) ==
    SelectSeq(m.anomalies, LAMBDA a : a.category = "PERFORMANCE" /\ a.severity = severity)

\* The elapsed time in ms that check_generation_time measured.
CheckedElapsed == monitor.metrics["generation_time_ms"][1]

\* C12: once the call has returned, an elapsed time above 5 s has left a
\* PERFORMANCE Warning in the monitor, and an elapsed time above 10 s has
\* left a PERFORMANCE Critical anomaly and made the call fail.
C12_TimeThresholds ==
    Returned =>
        /\ CheckedElapsed > 5000 => PerformanceAnomalies(monitor, "Warning") # <<>>
        /\ CheckedElapsed > 10000 =>
              /\ PerformanceAnomalies(monitor, "Critical") # <<>>
              /\ result = "err"


----------------------------------------------------------------------------
(* f64 arithmetic for the Moon Gravity override, `0.3 + gen::<f64>() * 0.2`
   (configure_environment, line 186).  A natural number is the sequence of
   its base-2^14 digits, lowest first, with no leading zero digit; a
   non-negative f64 is [m, e], standing for m * 2^e.  Every product and sum
   is rounded to 53 significant bits, ties to even, as the hardware does. *)

LimbBase == 16384
LimbBits == 14

RECURSIVE Pow2(_)
Pow2(n) == IF n = 0 THEN 1 ELSE 2 * Pow2(n - 1)

RECURSIVE Trim(_)
Trim(a) ==
    IF a = <<>> \/ a[Len(a)] # 0 THEN a ELSE Trim(SubSeq(a, 1, Len(a) - 1))

RECURSIVE Carry(_, _)
Carry(a, c) ==
    IF a = <<>>
    THEN IF c = 0 THEN <<>> ELSE <<c % LimbBase>> \o Carry(<<>>, c \div LimbBase)
    ELSE <<(Head(a) + c) % LimbBase>> \o Carry(Tail(a), (Head(a) + c) \div LimbBase)

BigNorm(a) == Trim(Carry(a, 0))

Limb(a, i) == IF i >= 1 /\ i <= Len(a) THEN a[i] ELSE 0

BigAdd(a, b) == BigNorm([i \in 1..Max(Len(a), Len(b)) |-> Limb(a, i) + Limb(b, i)])

RECURSIVE Conv(_, _, _, _)
Conv(a, b, k, i) ==
    IF i > Len(a) THEN 0 ELSE a[i] * Limb(b, k + 1 - i) + Conv(a, b, k, i + 1)

BigMul(a, b) ==
    IF a = <<>> \/ b = <<>> THEN <<>>
    ELSE BigNorm([k \in 1..(Len(a) + Len(b) - 1) |-> Conv(a, b, k, 1)])

\* a * 2^s
BigShl(a, s) ==
    IF a = <<>> THEN <<>>
    ELSE [i \in 1..(s \div LimbBits) |-> 0]
         \o BigNorm([i \in 1..Len(a) |-> a[i] * Pow2(s % LimbBits)])

\* a \div 2^s
BigShr(a, s) ==
    LET q == s \div LimbBits
        r == s % LimbBits
    IN  Trim([i \in 1..Max(Len(a) - q, 0) |->
                (a[q + i] \div Pow2(r)) + (Limb(a, q + i + 1) % Pow2(r)) * Pow2(LimbBits - r)])

RECURSIVE LimbLen(_)
LimbLen(n) == IF n = 0 THEN 0 ELSE 1 + LimbLen(n \div 2)

\* The number of significant bits of a
BitLen(a) == IF a = <<>> THEN 0 ELSE LimbBits * (Len(a) - 1) + LimbLen(a[Len(a)])

\* Bit i of a, bit 0 the lowest
BigBit(a, i) == (Limb(a, i \div LimbBits + 1) \div Pow2(i % LimbBits)) % 2

RECURSIVE BigLessFrom(_, _, _)
BigLessFrom(a, b, i) ==
    IF i = 0 THEN FALSE
    ELSE IF a[i] # b[i] THEN a[i] < b[i]
    ELSE BigLessFrom(a, b, i - 1)

BigLess(a, b) ==
    IF Len(a) # Len(b) THEN Len(a) < Len(b) ELSE BigLessFrom(a, b, Len(a))

\* m * 2^e rounded to 53 significant bits, ties to even
F64Round(m, e) ==
    LET s == BitLen(m) - 53
    IN  IF s <= 0 THEN [m |-> m, e |-> e]
        ELSE LET q == BigShr(m, s)
                 half == BigBit(m, s - 1) = 1
                 sticky == BigShl(BigShr(m, s - 1), s - 1) # m
                 up == half /\ (sticky \/ BigBit(q, 0) = 1)
             IN  [m |-> IF up THEN BigAdd(q, <<1>>) ELSE q, e |-> e + s]

\* The two mantissas on the lower of the two exponents
Aligned(x, y) ==
    LET e == Min(x.e, y.e)
    IN  [x |-> BigShl(x.m, x.e - e), y |-> BigShl(y.m, y.e - e), e |-> e]

F64Mul(x, y) == F64Round(BigMul(x.m, y.m), x.e + y.e)
F64Add(x, y) == F64Round(BigAdd(Aligned(x, y).x, Aligned(x, y).y), Aligned(x, y).e)
F64Less(x, y) == BigLess(Aligned(x, y).x, Aligned(x, y).y)
F64Equal(x, y) == Aligned(x, y).x = Aligned(x, y).y

\* f64::clamp
F64Clamp(v, lo, hi) == IF F64Less(v, lo) THEN lo ELSE IF F64Less(hi, v) THEN hi ELSE v

\* The literals of line 186 and the range of Gravity (data/mod.rs), as the
\* nearest f64: 0.3 = 0x13333333333333 * 2^-54, 0.2 = 0x1999999999999A * 2^-55,
\* 0.5 = 2^-1, 3.0 = 3 * 2^0
F64Lit03 == [m |-> <<13107, 3276, 13107, 1228>>, e |-> -54]
F64Lit02 == [m |-> <<6554, 9830, 6553, 1638>>, e |-> -55]
F64Lit05 == [m |-> <<1>>, e |-> -1]
F64Lit30 == [m |-> <<3>>, e |-> 0]

\* gen::<f64>() for the 53 random bits k: k * 2^-53, in [0, 1)
GenF64(k) == [m |-> k, e |-> -53]

\* The stored gravity when Moon Gravity is active and the draw has the bits
\* k: the override, no jitter, the clamp to the declared range.
MoonGravityValue(k) ==
    F64Clamp(F64Add(F64Lit03, F64Mul(GenF64(k), F64Lit02)), F64Lit02, F64Lit30)

----------------------------------------------------------------------------
(* Stage 2 on its own: up to MaxEnvRules rules, then the environment; and
   the Gravity iteration with Moon Gravity active on the bits of the draw *)

MaxEnvRules == 2
MaxDrawOffset == 24

\* Draws from the low end to the high end of [0, 1)
EnvDraws == {0, 11, 22, 33, 44, 50, 55, 66, 77, 88, 99}

EnvScenarios ==
    {[Scenario(1, c, 0) EXCEPT !.ruleS = {0, 12, 25, 37, 50, 62, 75, 87, 97},
                               !.envS = EnvDraws] : c \in 0..MaxEnvRules}

\* The 53 bits of a draw: the lowest values, the values around one half and
\* the highest values, 2^53 - j
RawDraws ==
    {Trim(<<j>>) : j \in 0..(MaxDrawOffset - 1)}
    \cup {<<j, 0, 0, 1024>> : j \in 0..(MaxDrawOffset - 1)}
    \cup {<<LimbBase - j, LimbBase - 1, LimbBase - 1, 2047>> : j \in 1..MaxDrawOffset}

\* generate(1, 1, seed) after the selection of Moon Gravity, at the Gravity
\* iteration of configure_environment
InitMoonGravity ==
    /\ scn = Scenario(1, 1, 0)
    /\ pc = "env_bits"
    /\ rules_order = RuleDeclOrder
    /\ env_order = EnvDeclOrder
    /\ arena = [NewArena(1, 1, 0) EXCEPT !.active_rules = <<CatalogRule("MoonGravity")>>]
    /\ monitor = RecordRuleApplication([NewMonitor EXCEPT !.started = TRUE], "MoonGravity")
    /\ sel = NoSel
    /\ wfc = NoWfc
    /\ loc = NoLoc
    /\ result = "none"
    /\ rng = [tape |-> <<>>, pos |-> 0, mode |-> "off"]
    /\ prev = NoPrev
    /\ vres = NoResult

\* The Gravity iteration of configure_environment with Moon Gravity active,
\* in f64: the draw, the override, the clamp, the insert and the metric.
MoonGravityBits ==
    /\ pc = "env_bits"
    /\ \E k \in RawDraws :
          /\ arena' = [arena EXCEPT !.env_variables =
                          EnvInsert(@, "Gravity", MoonGravityValue(k))]
          /\ monitor' = RecordMetric(monitor, "env_Gravity", MoonGravityValue(k))
    /\ pc' = "layout_bits"
    /\ UNCHANGED <<scn, rules_order, env_order, sel, wfc, loc, result, rng, prev, vres>>

InitEnv == InitGenerator(EnvScenarios, "off") \/ InitMoonGravity
NextEnv == Generate \/ SelectRule \/ ConfigureEnvironment \/ MoonGravityBits
SpecEnv == InitEnv /\ [][NextEnv]_vars

\* configure_environment has returned
EnvConfigured == pc = "layout"

\* The Gravity iteration on the bits of the draw has stored its value
GravityStored == pc = "layout_bits"

\* The rule that overrides an environment variable, if any.
Overridden(a, id) ==
    \/ id = "Gravity" /\ HasRule(a, "MoonGravity")
    \/ id = "GameSpeed" /\ HasRule(a, "SpeedUp")

Distance1(v, w) == IF v < w THEN w - v ELSE v - w

\* After configure_environment every catalog variable is stored with a value
\* inside its declared range, a variable no active rule overrides within 5%
\* of the range of its default; and while the stage runs, the value of such
\* a variable is, before the clamp, within 5% of the range of its default
\* for every draw.
RangeAndJitter ==
    /\ EnvConfigured =>
          /\ DOMAIN arena.env_variables = EnvVarIds
          /\ \A id \in EnvVarIds :
                /\ arena.env_variables[id] >= EnvRangeMin(id)
                /\ arena.env_variables[id] <= EnvRangeMax(id)
                /\ ~Overridden(arena, id) =>
                      20 * Distance1(arena.env_variables[id], EnvDefault(id))
                          <= EnvRangeMax(id) - EnvRangeMin(id)
    /\ pc = "env" /\ loc.k < Len(env_order) =>
          LET id == env_order[loc.k + 1]
          IN  ~Overridden(arena, id) =>
                 \A u \in scn.envS :
                    20 * Distance1(EnvJitter(id, EnvByRules(arena, id, u)[1], u), EnvDefault(id))
                        <= EnvRangeMax(id) - EnvRangeMin(id)
    /\ GravityStored =>
          /\ ~F64Less(arena.env_variables["Gravity"], F64Lit02)
          /\ ~F64Less(F64Lit30, arena.env_variables["Gravity"])

\* With Moon Gravity active the stored gravity is 0.3 + 0.2 * draw with
\* nothing added, and at least 0.3.
MoonGravityFromDraw ==
    /\ EnvConfigured /\ HasRule(arena, "MoonGravity") =>
          /\ arena.env_variables["Gravity"] >= 3000
          /\ arena.env_variables["Gravity"] \in {3000 + 20 * u : u \in scn.envS}
    /\ GravityStored =>
          /\ ~F64Less(arena.env_variables["Gravity"], F64Lit03)
          /\ \E k \in RawDraws :
                arena.env_variables["Gravity"] = F64Add(F64Lit03, F64Mul(GenF64(k), F64Lit02))

----------------------------------------------------------------------------
(* The records stage 5 adds *)

\* Stage 5 has returned and stage 6 has not started.
Placed == pc = "balance"

\* The number of pops of stage 5, and the arena as stage 5 found it: the
\* records before the ones the pops added
PopCount == Len(loc.spawnable) - Len(loc.list)
ArenaBeforePlace ==
    [arena EXCEPT !.modules = SubSeq(@, 1, Len(@) - PopCount)]

HasRecordAt(a, x, y) ==
    \E k \in 1..Len(a.modules) : a.modules[k].x = x /\ a.modules[k].y = y

NextToWalkable(a, x, y) ==
    \E k \in 1..Len(a.modules) :
       /\ a.modules[k].module_id \in Walkable
       /\ \/ a.modules[k].x = x /\ a.modules[k].y \in {y - 1, y + 1}
          \/ a.modules[k].y = y /\ a.modules[k].x \in {x - 1, x + 1}

PlacedRecords == (Len(arena.modules) - PopCount + 1)..Len(arena.modules)

\* C17: every record stage 5 adds is an energy orb or an interactive element
\* on an in-bounds cell that held no record when the stage started and has a
\* walkable record on one of its four neighbours; no two of them share a
\* cell; every orb comes before every interactive element; the stage adds
\* one record per pop and nothing else, places max(w*h/20, 3) orbs and
\* max(w*h/40, 1) elements or as many as the candidates allow, and goes on
\* to stage 6 when they run out.
C17_PlacementOnSpawnableCells ==
    [][/\ pc \in {"place", "shuffle", "orbs", "interactive"} =>
             /\ Len(arena'.modules) - Len(arena.modules) = Len(loc.list) - Len(loc'.list)
                   \/ pc = "place"
             /\ pc = "place" => arena' = arena
             /\ SubSeq(arena'.modules, 1, Len(arena.modules)) = arena.modules
             /\ pc' \in {"shuffle", "orbs", "interactive", "balance"}
       /\ Placed' /\ ~Placed =>
             /\ PopCount' <= Len(arena'.modules)
             /\ \A k \in PlacedRecords' :
                   LET c == arena'.modules[k]
                   IN  /\ c.module_id \in {"OrbEnergy"} \cup InteractiveElements
                       /\ c.x \in 0..(arena'.width - 1)
                       /\ c.y \in 0..(arena'.height - 1)
                       /\ ~HasRecordAt(ArenaBeforePlace', c.x, c.y)
                       /\ NextToWalkable(ArenaBeforePlace', c.x, c.y)
                       /\ \A j \in PlacedRecords' :
                             /\ j # k => <<arena'.modules[j].x, arena'.modules[j].y>> # <<c.x, c.y>>
                             /\ j < k /\ c.module_id = "OrbEnergy" =>
                                   arena'.modules[j].module_id = "OrbEnergy"
             /\ LET orbs == Cardinality({k \in PlacedRecords' :
                                            arena'.modules[k].module_id = "OrbEnergy"})
                    candidates == Len(loc'.spawnable)
                IN  /\ orbs = Min(OrbCount(arena'), candidates)
                    /\ PopCount' = Min(OrbCount(arena') + InteractiveCount(arena'),
                                       candidates)
                    /\ loc'.exhausted <=>
                          candidates < OrbCount(arena') + InteractiveCount(arena')]_vars

C17_Witness ==
    /\ Placed
    /\ ~loc.exhausted
    /\ PopCount = 4
    /\ arena.modules[Len(arena.modules)].module_id \in InteractiveElements
    /\ arena.modules[Len(arena.modules) - 1].module_id = "OrbEnergy"

----------------------------------------------------------------------------
(* The report of stage 6 *)

BalanceAnomalies(m) ==
    SelectSeq(m.anomalies, LAMBDA a : a.category = "BALANCE")

\* The floors stage 6 has added so far: the walkable count now, less the
\* walkable count it started from, which is required_walkable - needed
AddedFloors ==
    CountModules(arena, Walkable) - (RequiredWalkable(arena) - loc.needed)

\* A step of stage 6 leaves the records alone or appends one standard floor
\* on a cell without a record.
AddsFloorOnFreeCell ==
    \/ arena' = arena
    \/ \E x \in 0..(arena.width - 1) : \E y \in 0..(arena.height - 1) :
          /\ IsFree(arena, x, y)
          /\ arena' = AddModule(arena, x, y, "FloorStd")

\* C18: when stage 6 starts below the required walkable count, needed is the
\* shortfall, every record it adds is a standard floor on a free cell, and
\* when it ends the monitor holds exactly one BALANCE anomaly, of severity
\* Info, whose count is the number of floors the stage added.
C18_BalanceReport ==
    [][/\ pc = "balance" /\ pc' = "free" =>
             /\ arena' = arena
             /\ loc'.needed = RequiredWalkable(arena) - CountModules(arena, Walkable)
             /\ loc'.needed > 0
       /\ pc = "free" => AddsFloorOnFreeCell
       /\ pc = "free" /\ pc' = "validate" =>
             /\ Len(BalanceAnomalies(monitor')) = 1
             /\ BalanceAnomalies(monitor')[1].severity = "Info"
             /\ BalanceAnomalies(monitor')[1].message = <<"added_floor_tiles", AddedFloors'>>]_vars

----------------------------------------------------------------------------
(* The two passes of the Layout Filler *)

\* The position of a record in the row-by-row walk of the grid
RowMajorIndex(c) == c.y * arena.width + c.x

\* The types the five candidates are
FiveCandidates ==
    {"FloorStd", "FloorLarge", "RampSteep", "HazardLavaPit", "HazardLaserEmitterStatic"}

\* The records of a first pass: in bounds, of a candidate type, and each
\* later in the row-by-row walk than the one before it
FirstPass(r) ==
    /\ \A k \in 1..Len(r) :
          /\ r[k].x \in 0..(arena.width - 1)
          /\ r[k].y \in 0..(arena.height - 1)
          /\ r[k].module_id \in FiveCandidates
    /\ \A j, k \in 1..Len(r) : j < k => RowMajorIndex(r[j]) < RowMajorIndex(r[k])

\* C19: while the first pass runs, the Layout Filler's output holds at most
\* one record per cell, in row-major order, each in bounds and of one of the
\* five candidate types, and a step of the pass emits nothing or one record
\* on the cell it visits, the next one of the row-major walk; a step of the
\* minimum-count enforcement appends one lava pit or one energy orb at an
\* in-bounds position and keeps what the first pass emitted; the arena then
\* receives the records in the order of emission.
C19_FirstPassRowMajor ==
    [][/\ pc = "fill" =>
             /\ FirstPass(wfc.result) /\ FirstPass(wfc'.result)
             /\ \A k \in 1..Len(wfc.result) : RowMajorIndex(wfc.result[k]) < loc.k
             /\ \/ wfc'.result = wfc.result
                \/ /\ Len(wfc'.result) = Len(wfc.result) + 1
                   /\ SubSeq(wfc'.result, 1, Len(wfc.result)) = wfc.result
                   /\ RowMajorIndex(wfc'.result[Len(wfc'.result)]) = loc.k
             /\ pc' = "fill" => loc'.k = loc.k + 1
             /\ pc' # "fill" => loc.k + 1 = arena.width * arena.height
       /\ pc \in {"lava_min", "orb_min"} =>
             /\ Len(wfc'.result) = Len(wfc.result) + 1
             /\ SubSeq(wfc'.result, 1, Len(wfc.result)) = wfc.result
             /\ LET c == wfc'.result[Len(wfc'.result)]
                IN  /\ c.x \in 0..(arena.width - 1)
                    /\ c.y \in 0..(arena.height - 1)
                    /\ c.module_id = IF pc = "lava_min" THEN "HazardLavaPit" ELSE "OrbEnergy"
       /\ pc = "write" =>
             SubSeq(arena'.modules, 1, Len(wfc.result)) = wfc.result]_vars

\* The enforcement has put an energy orb on a cell of the first pass.
C19_Witness ==
    /\ pc = "write"
    /\ \E j, k \in 1..Len(wfc.result) :
          /\ j < k
          /\ wfc.result[j].module_id \in FiveCandidates
          /\ wfc.result[k].module_id = "OrbEnergy"
          /\ wfc.result[j].x = wfc.result[k].x
          /\ wfc.result[j].y = wfc.result[k].y

----------------------------------------------------------------------------
(* The reachability check of the monitor *)

\* The anomalies of monitor m that are about the record c: the isolation
\* report of its position, or any reachability report
AnomaliesAbout(m, c) ==
    SelectSeq(m.anomalies, LAMBDA an :
        \/ an.category = "REACHABILITY"
        \/ an.message = <<"isolated", c.module_id, c.x, c.y>>)

\* C20: the monitor never holds a REACHABILITY anomaly, and once the call has
\* returned, an energy orb that the monitor's flood fill from the player
\* does not reach but that has a walkable neighbour has no anomaly about it.
C20_NoReachabilityAnomaly ==
    /\ \A k \in 1..Len(monitor.anomalies) :
          monitor.anomalies[k].category # "REACHABILITY"
    /\ Returned =>
          \A k \in 1..Len(UnreachableOrbs(arena)) :
             LET c == UnreachableOrbs(arena)[k]
             IN  CountAdjacentWalkable(arena, c.x, c.y) > 0 =>
                    AnomaliesAbout(monitor, c) = <<>>

\* A call that returned Ok with an arena in which the flood fill from the
\* player misses an energy orb.
C20_Witness ==
    /\ Succeeded
    /\ UnreachableOrbs(arena) # <<>>
    /\ \A k \in 1..Len(UnreachableOrbs(arena)) :
          CountAdjacentWalkable(arena, UnreachableOrbs(arena)[k].x,
                                UnreachableOrbs(arena)[k].y) > 0

----------------------------------------------------------------------------
(* The structural check of the monitor *)

AnomaliesOf(m, category) ==
    SelectSeq(m.anomalies, LAMBDA an : an.category = category)

RecordsOf(a, types) == {k \in 1..Len(a.modules) : a.modules[k].module_id \in types}

AllInBounds(a) ==
    \A k \in 1..Len(a.modules) :
       /\ a.modules[k].x \in 0..(a.width - 1)
       /\ a.modules[k].y \in 0..(a.height - 1)

\* C21 as stated: once the call has returned, a grid with a player record and
\* every record in bounds has left no STRUCTURAL and no BOUNDS anomaly in the
\* monitor, whatever its walkable and orb counts.
C21_OnlyPlayerExpected ==
    Returned /\ RecordsOf(arena, {"Player"}) # {} /\ AllInBounds(arena) =>
        /\ AnomaliesOf(monitor, "STRUCTURAL") = <<>>
        /\ AnomaliesOf(monitor, "BOUNDS") = <<>>

\* C21 (amended): the monitor's structural check has three expectations
\* besides bounds.  Once the call has returned, the STRUCTURAL anomalies are
\* all Critical and are, in this order, one for a grid without a player
\* record, one for a grid with fewer than three walkable records, carrying
\* their number, and one for a grid without an energy orb record; a grid
\* that meets the three has none, and a grid with every record in bounds
\* has no BOUNDS anomaly.
C21_ThreeExpectations ==
    Returned =>
        LET walkable == Cardinality(RecordsOf(arena, {"FloorStd", "FloorLarge", "RampSteep"}))
            expected ==
                (IF RecordsOf(arena, {"Player"}) = {} THEN <<<<"no_player_spawn">>>> ELSE <<>>)
                \o (IF walkable < 3 THEN <<<<"insufficient_walkable", walkable>>>> ELSE <<>>)
                \o (IF RecordsOf(arena, {"OrbEnergy"}) = {} THEN <<<<"no_energy_orbs">>>> ELSE <<>>)
            found == AnomaliesOf(monitor, "STRUCTURAL")
        IN  /\ Len(found) = Len(expected)
            /\ \A k \in 1..Len(found) :
                  found[k].severity = "Critical" /\ found[k].message = expected[k]
            /\ AllInBounds(arena) => AnomaliesOf(monitor, "BOUNDS") = <<>>

\* A returned call whose grid has a player and an orb, every record in
\* bounds, and two walkable records: the one STRUCTURAL anomaly is theirs.
C21_Witness ==
    /\ Returned
    /\ RecordsOf(arena, {"Player"}) # {}
    /\ RecordsOf(arena, {"OrbEnergy"}) # {}
    /\ AllInBounds(arena)
    /\ Len(AnomaliesOf(monitor, "STRUCTURAL")) = 1
    /\ AnomaliesOf(monitor, "STRUCTURAL")[1].message = <<"insufficient_walkable", 2>>

----------------------------------------------------------------------------
(* The spatial-coherence check, on generated grids and on grids built by
   hand: Arena::new, add_module, then the check on a fresh monitor. *)

MaxSpatialModules == 3

SpatialModules ==
    {"FloorStd", "OrbEnergy", "InteractButtonFloor", "HazardLavaPit", "InteractLever"}

InitSpatial ==
    /\ scn = Scenario(1, 0, 0)
    /\ pc = "spatial"
    /\ rules_order = RuleDeclOrder
    /\ env_order = EnvDeclOrder
    /\ arena \in ConnArenas
    /\ monitor = NewMonitor
    /\ sel = NoSel
    /\ wfc = NoWfc
    /\ loc = NoLoc
    /\ result = "none"
    /\ rng = [tape |-> <<>>, pos |-> 0, mode |-> "off"]
    /\ prev = NoPrev
    /\ vres = NoResult

\* arena.add_module(x, y, module_id, None), on a cell that may hold a record
SpatialAddModule ==
    /\ pc = "spatial"
    /\ Len(arena.modules) < MaxSpatialModules
    /\ \E p \in ConnPositions : \E id \in SpatialModules :
          arena' = AddModule(arena, p[1], p[2], id)
    /\ UNCHANGED <<scn, pc, rules_order, env_order, monitor, sel, wfc, loc, result, rng, prev, vres>>

\* check_spatial_coherence, as validate_arena calls it
SpatialCoherence ==
    /\ pc = "spatial"
    /\ monitor' = CheckSpatialCoherence(monitor, arena)
    /\ pc' = "coherent"
    /\ UNCHANGED <<scn, rules_order, env_order, arena, sel, wfc, loc, result, rng, prev, vres>>

InitSpatialOrGen == InitSpatial \/ InitGen
NextSpatial == SpatialAddModule \/ SpatialCoherence \/ Pipeline
SpecSpatial == InitSpatialOrGen /\ [][NextSpatial]_vars

\* The check has run on the arena: by hand, or at the end of a call.
CoherenceChecked == pc = "coherent" \/ Returned

\* The Critical SPATIAL anomalies of the monitor about the record c
IsolationReports(c) ==
    SelectSeq(monitor.anomalies, LAMBDA an :
        /\ an.category = "SPATIAL"
        /\ an.severity = "Critical"
        /\ an.message = <<"isolated", c.module_id, c.x, c.y>>)

\* Some record on a cell next to (x, y) is walkable.
WalkableNextTo(a, x, y) ==
    \E k \in 1..Len(a.modules) :
       /\ a.modules[k].module_id \in {"FloorStd", "FloorLarge", "RampSteep"}
       /\ \/ a.modules[k].x = x /\ a.modules[k].y \in {y - 1, y + 1}
          \/ a.modules[k].y = y /\ a.modules[k].x \in {x - 1, x + 1}

\* The first record of some cell next to (x, y) is walkable.
FirstWalkableNextTo(a, x, y) ==
    \E k \in 1..Len(a.modules) :
       /\ a.modules[k].module_id \in {"FloorStd", "FloorLarge", "RampSteep"}
       /\ \/ a.modules[k].x = x /\ a.modules[k].y \in {y - 1, y + 1}
          \/ a.modules[k].y = y /\ a.modules[k].x \in {x - 1, x + 1}
       /\ \A j \in 1..(k - 1) :
             ~(a.modules[j].x = a.modules[k].x /\ a.modules[j].y = a.modules[k].y)

\* The Critical anomalies of the category SPATIAL; the clustering Warning of
\* check_module_distribution has the category too
SpatialCriticals ==
    SelectSeq(monitor.anomalies, LAMBDA an :
        an.category = "SPATIAL" /\ an.severity = "Critical")

----------------------------------------------------------------------------
(* The positions of the records of a call *)

\* C23: at every point of a call of size >= 1, every record of the arena and
\* every record of the Layout Filler's output lies in [0,width) x [0,height),
\* and the monitor holds no BOUNDS anomaly, during the call and after its
\* validation.
C23_RecordsInBounds ==
    /\ AllInBounds(arena)
    /\ \A k \in 1..Len(wfc.result) :
          /\ wfc.result[k].x \in 0..(arena.width - 1)
          /\ wfc.result[k].y \in 0..(arena.height - 1)
    /\ AnomaliesOf(monitor, "BOUNDS") = <<>>

\* A returned Lava Floor call on the largest arena with a lava pit on the
\* last cell of the grid.
C23_Witness ==
    /\ Returned
    /\ arena.width = MaxSize
    /\ HasRule(arena, "LavaFloor")
    /\ \E k \in 1..Len(arena.modules) :
          /\ arena.modules[k].module_id = "HazardLavaPit"
          /\ arena.modules[k].x = arena.width - 1
          /\ arena.modules[k].y = arena.height - 1

----------------------------------------------------------------------------
(* The empty zones of the Structural Validator: core/arena.rs *)

\* The loop of Arena::flood_fill_empty_zone over the queue: the visited set
\* and the cells of the zone, in the order they are pushed
RECURSIVE FloodFillQueue(_, _, _, _)
FloodFillQueue(a, queue, visited, zone_cells) ==
    IF queue = <<>> THEN <<visited, zone_cells>>
    ELSE LET p == Head(queue)
         IN  IF p \in visited \/ ~IsValidPosition(a, p[1], p[2])
             THEN FloodFillQueue(a, Tail(queue), visited, zone_cells)
             ELSE IF ~IsFree(a, p[1], p[2])
             THEN FloodFillQueue(a, Tail(queue), visited, zone_cells)
             ELSE FloodFillQueue(a, Tail(queue) \o GetAdjacentPositions(a, p[1], p[2]),
                                 visited \cup {p}, Append(zone_cells, p))

\* The EmptyZone of flood_fill_empty_zone for the cells it collected
EmptyZone(zone_cells, start) ==
    [center |-> IF zone_cells # <<>>
                THEN <<SumSeq([k \in 1..Len(zone_cells) |-> zone_cells[k][1]])
                          \div Len(zone_cells),
                       SumSeq([k \in 1..Len(zone_cells) |-> zone_cells[k][2]])
                          \div Len(zone_cells)>>
                ELSE start,
     size |-> Len(zone_cells),
     cells |-> zone_cells]

\* The filter of find_large_empty_zones: `if zone.size > 4`
IsLargeZone(size) == size > 4

\* The loops of Arena::find_large_empty_zones from cell i of the row-by-row
\* walk on
RECURSIVE ZonesFrom(_, _, _, _)
ZonesFrom(a, i, visited, zones) ==
    IF i >= a.width * a.height THEN zones
    ELSE LET x == i % a.width
             y == i \div a.width
         IN  IF <<x, y>> \notin visited /\ IsFree(a, x, y)
             THEN LET filled == FloodFillQueue(a, <<<<x, y>>>>, visited, <<>>)
                      zone == EmptyZone(filled[2], <<x, y>>)
                  IN  ZonesFrom(a, i + 1, filled[1],
                                IF IsLargeZone(zone.size) THEN Append(zones, zone) ELSE zones)
             ELSE ZonesFrom(a, i + 1, visited, zones)

FindLargeEmptyZones(a) == ZonesFrom(a, 0, {}, <<>>)

\* The loop of Arena::check_empty_zones over the zones found
RECURSIVE WarnZones(_, _, _)
WarnZones(r, a, zones) ==
    IF zones = <<>> THEN r
    ELSE LET zone == Head(zones)
         IN  WarnZones(IF zone.size > (a.width * a.height) \div 8
                       THEN AddWarning(r, <<"large_empty_zone", zone.center[1],
                                            zone.center[2], zone.size>>)
                       ELSE r,
                       a, Tail(zones))

\* Arena::check_empty_zones
CheckEmptyZones(r, a) == WarnZones(r, a, FindLargeEmptyZones(a))

MaxZoneModules == 4

\* Square grids of 2, 3 and 4 cells a side
ZoneArenas == {NewArena(2, 2, 0), NewArena(3, 3, 0), NewArena(4, 4, 0)}

\* Cells that wall off the top-left corner of the 4x4 grid, and the middle
\* column of the 3x3 grid
ZonePositions == {<<2, 0>>, <<2, 1>>, <<0, 2>>, <<1, 2>>, <<1, 0>>, <<1, 1>>}

InitZones ==
    /\ scn = Scenario(1, 0, 0)
    /\ pc = "zones"
    /\ rules_order = RuleDeclOrder
    /\ env_order = EnvDeclOrder
    /\ arena \in ZoneArenas
    /\ monitor = NewMonitor
    /\ sel = NoSel
    /\ wfc = NoWfc
    /\ loc = NoLoc
    /\ result = "none"
    /\ rng = [tape |-> <<>>, pos |-> 0, mode |-> "off"]
    /\ prev = NoPrev
    /\ vres = NoResult

\* arena.add_module(x, y, ModuleId::FloorStd, None)
ZoneAddModule ==
    /\ pc = "zones"
    /\ Len(arena.modules) < MaxZoneModules
    /\ \E p \in ZonePositions : arena' = AddModule(arena, p[1], p[2], "FloorStd")
    /\ UNCHANGED <<scn, pc, rules_order, env_order, monitor, sel, wfc, loc, result, rng, prev, vres>>

\* The empty-zone check of validate_advanced_integrity, on a result that
\* holds no finding yet
EmptyZones ==
    /\ pc = "zones"
    /\ vres' = CheckEmptyZones(NoResult, arena)
    /\ pc' = "zoned"
    /\ UNCHANGED <<scn, rules_order, env_order, arena, monitor, sel, wfc, loc, result, rng, prev>>

NextZones == ZoneAddModule \/ EmptyZones
SpecZones == InitZones /\ [][NextZones]_vars

Zoned == pc = "zoned"

\* The in-bounds cells of a without a record
EmptyCells(a) ==
    {p \in (0..(a.width - 1)) \X (0..(a.height - 1)) : ~HasRecordAt(a, p[1], p[2])}

\* The least set of cells of E holding Z and closed under a 4-directional
\* step
RECURSIVE GrowZone(_, _)
GrowZone(E, Z) ==
    LET next == Z \cup {q \in E :
                    \E p \in Z : (p[1] - q[1]) * (p[1] - q[1])
                                 + (p[2] - q[2]) * (p[2] - q[2]) = 1}
    IN  IF next = Z THEN Z ELSE GrowZone(E, next)

\* The maximal 4-connected zones of empty cells
MaximalZones(a) ==
    LET E == EmptyCells(a) IN {GrowZone(E, {p}) : p \in E}

\* The sum of coordinate i over the cells of Z, a set of cells of a
SumOver(a, Z, i) ==
    SumSeq([v \in 1..Max(a.width, a.height) |->
               (v - 1) * Cardinality({p \in Z : p[i] = v - 1})])

\* The warning of a zone: its centre, the mean of its cells rounded down, and
\* its size
ZoneWarning(a, Z) ==
    <<"large_empty_zone", SumOver(a, Z, 1) \div Cardinality(Z),
      SumOver(a, Z, 2) \div Cardinality(Z), Cardinality(Z)>>

\* C24: after the check, the warnings are one per maximal 4-connected zone of
\* empty in-bounds cells with more than width*height/8 cells, rounded down,
\* and no other.
C24_WarningPerLargeZone ==
    Zoned =>
        LET large == {Z \in MaximalZones(arena) :
                         Cardinality(Z) > (arena.width * arena.height) \div 8}
        IN  /\ Len(vres.warnings) = Cardinality(large)
            /\ Range(vres.warnings) = {ZoneWarning(arena, Z) : Z \in large}

----------------------------------------------------------------------------
(* The connectivity check of the Structural Validator on a generated grid *)

\* The connectivity check of validate_advanced_integrity on the grid a call
\* returned, on a result that holds no finding yet
AuditConnectivity ==
    /\ Succeeded
    /\ vres' = CheckConnectivity(NoResult, arena)
    /\ pc' = "audited"
    /\ UNCHANGED <<scn, rules_order, env_order, arena, monitor, sel, wfc, loc, result, rng, prev>>

NextAudit == Pipeline \/ AuditConnectivity
SpecAudit == InitGen /\ [][NextAudit]_vars

Audited == pc = "audited"

\* The record c is next to a cell the flood fill from the player reaches and
\* whose first record is walkable.
TouchesReachableFloor(a, c) ==
    \E p \in FloodFromPlayer(a) :
       /\ (p[1] - c.x) * (p[1] - c.x) + (p[2] - c.y) * (p[2] - c.y) = 1
       /\ GetCell(a, p[1], p[2]) \in {"FloorStd", "FloorLarge", "RampSteep", "RampLow"}

\* C25: when every energy orb and every interactive element of a generated
\* grid is next to a floor cell reachable from the player, the connectivity
\* check records no warning about unreachable interactive elements and no
\* low-connectivity-ratio error.
C25_AdjacentElementsCountReachable ==
    Audited /\ (\A k \in 1..Len(arena.modules) :
                   arena.modules[k].module_id \in {"OrbEnergy"} \cup InteractiveTypes
                      => TouchesReachableFloor(arena, arena.modules[k]))
        => /\ vres.warnings = <<>>
           /\ vres.errors = <<>>

----------------------------------------------------------------------------
(* Merging monitors: AnomalyMonitor::merge and get_summary.  The metrics of
   the monitors merged here are f64 values. *)

\* The loop of merge over other.metrics: *entry(key).or_insert(0.0) += value,
\* where 0.0 + value is value
MergeMetrics(mine, theirs) ==
    [n \in (DOMAIN mine) \cup (DOMAIN theirs) |->
        IF n \notin DOMAIN theirs THEN mine[n]
        ELSE IF n \notin DOMAIN mine THEN theirs[n]
        ELSE F64Add(mine[n], theirs[n])]

\* AnomalyMonitor::merge
Merge(m, other) ==
    [m EXCEPT !.anomalies = @ \o other.anomalies,
              !.metrics = MergeMetrics(@, other.metrics)]

\* The counts of get_summary: by_severity and by_category hold an entry for
\* each value that occurs
CountBy(m, field) ==
    [v \in {m.anomalies[k][field] : k \in 1..Len(m.anomalies)} |->
        Cardinality({k \in 1..Len(m.anomalies) : m.anomalies[k][field] = v})]

\* AnomalyMonitor::get_summary
GetSummary(m) ==
    [total_anomalies |-> Len(m.anomalies),
     by_severity |-> CountBy(m, "severity"),
     by_category |-> CountBy(m, "category"),
     metrics |-> m.metrics]

MaxMergeAnomalies == 1

MergeAnomalies ==
    {Anomaly("RULES", "Critical", <<"incompatible_rules", "NoJump", "LowJump">>),
     Anomaly("BALANCE", "Info", <<"added_floor_tiles", 1>>),
     Anomaly("BALANCE", "Warning", <<"low_orb_density", 0, 4>>)}

\* 0.1 and 0.4 as the nearest f64: 0x1999999999999A * 2^-56 and * 2^-54
F64Lit01 == [m |-> F64Lit02.m, e |-> -56]
F64Lit04 == [m |-> F64Lit02.m, e |-> -54]

MergeMetricNames == {"orb_density"}
MergeMetricValues == {F64Lit01, F64Lit04}

\* Three fresh monitors A, B and C
InitMerge ==
    /\ scn = Scenario(1, 0, 0)
    /\ pc = "monitors"
    /\ rules_order = RuleDeclOrder
    /\ env_order = EnvDeclOrder
    /\ arena = NewArena(0, 0, 0)
    /\ monitor = NewMonitor
    /\ sel = NoSel
    /\ wfc = NoWfc
    /\ loc = NoLoc
    /\ result = "none"
    /\ rng = [tape |-> <<>>, pos |-> 0, mode |-> "off"]
    /\ prev = [ms |-> <<NewMonitor, NewMonitor, NewMonitor>>, other |-> NewMonitor]
    /\ vres = NoResult

\* report_anomaly on one of the three
MergeReport ==
    /\ pc = "monitors"
    /\ \E i \in 1..3 : \E an \in MergeAnomalies :
          /\ Len(prev.ms[i].anomalies) < MaxMergeAnomalies
          /\ prev' = [prev EXCEPT !.ms[i] =
                         ReportAnomaly(@, an.category, an.severity, an.message)]
    /\ UNCHANGED <<scn, pc, rules_order, env_order, arena, monitor, sel, wfc, loc, result, rng, vres>>

\* record_metric on one of the three, of a name it does not hold yet
MergeRecord ==
    /\ pc = "monitors"
    /\ \E i \in 1..3 : \E name \in MergeMetricNames : \E value \in MergeMetricValues :
          /\ name \notin DOMAIN prev.ms[i].metrics
          /\ prev' = [prev EXCEPT !.ms[i] = RecordMetric(@, name, value)]
    /\ UNCHANGED <<scn, pc, rules_order, env_order, arena, monitor, sel, wfc, loc, result, rng, vres>>

\* Two copies of A: B then C merged into one, C then B into the other
MergeBothOrders ==
    /\ pc = "monitors"
    /\ monitor' = Merge(Merge(prev.ms[1], prev.ms[2]), prev.ms[3])
    /\ prev' = [prev EXCEPT !.other = Merge(Merge(prev.ms[1], prev.ms[3]), prev.ms[2])]
    /\ pc' = "merged"
    /\ UNCHANGED <<scn, rules_order, env_order, arena, sel, wfc, loc, result, rng, vres>>

NextMerge == MergeReport \/ MergeRecord \/ MergeBothOrders
SpecMerge == InitMerge /\ [][NextMerge]_vars

Merged == pc = "merged"

\* The anomalies of m as a multiset
AnomalyBag(m) ==
    [an \in Range(m.anomalies) |->
        Cardinality({k \in 1..Len(m.anomalies) : m.anomalies[k] = an})]

\* The metrics of m and n have the same names and the same f64 values.
SameMetrics(m, n) ==
    /\ DOMAIN m.metrics = DOMAIN n.metrics
    /\ \A name \in DOMAIN m.metrics : F64Equal(m.metrics[name], n.metrics[name])

\* C26: merging B then C into A and merging C then B into A give the same
\* anomaly multiset, the same counts per severity and per category and the
\* same metric values, and the result has a Critical anomaly exactly when
\* one of A, B and C has.
C26_MergeOrderIndependent ==
    Merged =>
        /\ AnomalyBag(monitor) = AnomalyBag(prev.other)
        /\ GetSummary(monitor).total_anomalies = GetSummary(prev.other).total_anomalies
        /\ GetSummary(monitor).by_severity = GetSummary(prev.other).by_severity
        /\ GetSummary(monitor).by_category = GetSummary(prev.other).by_category
        /\ SameMetrics(monitor, prev.other)
        /\ HasCriticalAnomalies(monitor) <=>
              \E i \in 1..3 : HasCriticalAnomalies(prev.ms[i])
        /\ HasCriticalAnomalies(prev.other) <=> HasCriticalAnomalies(monitor)

----------------------------------------------------------------------------
(* The order of the steps of generate_with_monitoring *)

\* The step of generate_with_monitoring a position belongs to: 0 before the
\* call, 1 to 6 the stages, 7 the time stamp and the validation, 8 returned
StageOf(p) ==
    CASE p = "idle" -> 0
      [] p = "select" -> 1
      [] p = "env" -> 2
      [] p \in {"layout", "fill", "lava_min", "orb_min", "write"} -> 3
      [] p \in {"rules", "projectile", "lava_expand"} -> 4
      [] p \in {"place", "shuffle", "orbs", "interactive"} -> 5
      [] p \in {"balance", "free"} -> 6
      [] p = "validate" -> 7
      [] p = "done" -> 8

\* s is a prefix of t
IsPrefix(s, t) == Len(s) <= Len(t) /\ SubSeq(t, 1, Len(s)) = s


\* The stage whose loop has no iteration is run inside the step before it:
\* rule selection with a rule count of 0, the rule modifications with no
\* active rule.
EmptyStagePassed ==
    \/ pc = "idle" /\ scn.count = 0 /\ pc' = "env"
    \/ pc = "write" /\ arena.active_rules = <<>> /\ pc' = "place"

\* C27: a call goes through rule selection, environment configuration, base
\* layout, rule modifications, interactive placement and balancing in that
\* order, never back and never past one, then stamps the time, validates and
\* checks the time in its last step; every anomaly in the monitor stays
\* there, and the call has no outcome before that last step, which fails it
\* exactly when the monitor holds a Critical anomaly.
C27_StagesInOrder ==
    [][/\ StageOf(pc') >= StageOf(pc)
       /\ StageOf(pc') <= StageOf(pc) + 1 \/ EmptyStagePassed
       /\ IsPrefix(monitor.anomalies, monitor'.anomalies)
       /\ result = "none"
       /\ result' # "none" <=> (pc = "validate" /\ pc' = "done")
       /\ result' = "err" <=> (pc' = "done" /\ HasCriticalAnomalies(monitor'))]_vars

\* A call that failed in its last step and still holds a non-Critical
\* anomaly and the rule applications recorded on the way.
C27_Witness ==
    /\ Failed
    /\ \E k \in 1..Len(monitor.anomalies) : monitor.anomalies[k].severity # "Critical"
    /\ \E k \in 1..Len(monitor.anomalies) : monitor.anomalies[k].severity = "Critical"
    /\ Len(monitor.rules_applied) > 0

----------------------------------------------------------------------------
(* Termination of generate_with_monitoring *)

\* A loop that does not skip a popped position it has visited
RECURSIVE FloodFillVisitsNoSkip(_, _, _, _)
FloodFillVisitsNoSkip(a, stack, visited, visits) ==
    IF stack = <<>> THEN visits
    ELSE LET p == stack[Len(stack)]
             rest == SubSeq(stack, 1, Len(stack) - 1)
             v == visited \cup {p}
             neighbours == [d \in 1..Len(Directions) |->
                               <<p[1] + Directions[d][1], p[2] + Directions[d][2]>>]
             push == SelectSeq(neighbours, LAMBDA q :
                         /\ q \notin v
                         /\ GetCell(a, q[1], q[2]) \in FloodTraversable)
         IN  FloodFillVisitsNoSkip(a, rest \o push, v, Append(visits, p))

\* The loop of flood_fill_reachable with the popped positions it does not
\* skip logged in order: visits grows where the code does visited.insert
RECURSIVE FloodFillVisits(_, _, _, _)
FloodFillVisits(a, stack, visited, visits) ==
    IF stack = <<>> THEN visits
    ELSE LET p == stack[Len(stack)]
             rest == SubSeq(stack, 1, Len(stack) - 1)
         IN  IF p \in visited THEN FloodFillVisits(a, rest, visited, visits)
             ELSE LET v == visited \cup {p}
                      neighbours == [d \in 1..Len(Directions) |->
                                        <<p[1] + Directions[d][1], p[2] + Directions[d][2]>>]
                      push == SelectSeq(neighbours, LAMBDA q :
                                  /\ q \notin v
                                  /\ GetCell(a, q[1], q[2]) \in FloodTraversable)
                  IN  FloodFillVisits(a, rest \o push, v, Append(visits, p))

\* The visits of the flood fill check_reachability runs on a: from the first
\* player record, none without a player
ValidationVisits(a) ==
    LET players == SelectSeq(a.modules, LAMBDA c : c.module_id = "Player")
    IN  IF players = <<>> THEN <<>>
        ELSE FloodFillVisits(a, <<<<players[1].x, players[1].y>>>>, {}, <<>>)

\* Calls of every rule count up to MaxRuleCount on one cell, calls of one
\* rule on three floors, and the two calls on a full grid
InitTerm ==
    /\ InitGenerator(RuleScenarios \cup SelectScenarios
                     \cup {FullGridScenario, LavaOnFloorScenario}, "off")
    /\ rules_order = RuleDeclOrder
    /\ env_order = EnvDeclOrder

\* The last step seen from the position alone: under Pipeline the step from
\* "validate" to "done" is Finish, which can be taken in every state at
\* "validate"
Finishing == pc = "validate" /\ pc' = "done"

\* The call is one thread run to completion: the step that can be taken is
\* taken
Completion ==
    /\ WF_vars(Generate) /\ WF_vars(SelectRule) /\ WF_vars(ConfigureEnvironment)
    /\ WF_vars(InitLayout) /\ WF_vars(WfcFill) /\ WF_vars(EnforceLava)
    /\ WF_vars(EnforceOrbs) /\ WF_vars(WriteLayout) /\ WF_vars(ApplyRule)
    /\ WF_vars(ProjectileHazard) /\ WF_vars(LavaExpand) /\ WF_vars(PlaceInit)
    /\ WF_vars(ShuffleStep) /\ WF_vars(PlaceOrbs) /\ WF_vars(PlaceInteractive)
    /\ WF_vars(BalanceInit) /\ WF_vars(FindFreePosition)
    /\ WF_pc(Finishing)

SpecTerm == InitTerm /\ [][Pipeline]_vars /\ Completion

NoDuplicates(s) == Cardinality(Range(s)) = Len(s)

\* C28: every call returns, with a grid or an error; while rule selection
\* runs it has made fewer iterations than the rule count, a search for a free
\* cell has made fewer than 100 failed attempts when it makes the next, and
\* the flood fill of the validation visits no cell twice, so at most every
\* cell of the grid.
C28_CallTerminates ==
    /\ [](/\ pc = "select" => sel.i < scn.count
          /\ sel.i <= scn.count
          /\ Len(sel.selected) <= sel.i
          /\ loc.attempt < MaxAttempts
          /\ pc \in {"validate", "done"} =>
                LET visits == ValidationVisits(arena)
                IN  /\ NoDuplicates(visits)
                    /\ Len(visits) <= arena.width * arena.height)
    /\ <>Returned

\* A returned call whose last search made all its attempts on a full grid,
\* and a returned call of MaxRuleCount rules whose selection ran dry
C28_Witness ==
    /\ Returned
    /\ \/ loc.exhausted /\ Len(ValidationVisits(arena)) > 1
       \/ scn.count = MaxRuleCount /\ Len(arena.active_rules) < scn.count

----------------------------------------------------------------------------
(* The statistics of a generated grid: Arena::get_statistics *)

\* The builds of the crate: overflow checks on (debug) or off (release)
Builds == {"debug", "release"}

\* usize subtraction a - b.  Below zero a build with overflow checks panics
\* and one without wraps to 2^64 - (b - a), held here as the distance below
\* 2^64.
UsizeSub(a, b, build) ==
    IF a >= b THEN [panic |-> FALSE, wrapped |-> FALSE, value |-> a - b]
    ELSE IF build = "debug" THEN [panic |-> TRUE, wrapped |-> FALSE, value |-> 0]
    ELSE [panic |-> FALSE, wrapped |-> TRUE, value |-> b - a]

\* Arena::get_statistics: the counts, and the three ratios as numerator and
\* denominator.  A panic in the subtraction leaves no record.
GetStatistics(a, build) ==
    LET total_cells == a.width * a.height
        filled_cells == Len(a.modules)
        empty_cells == UsizeSub(total_cells, filled_cells, build)
        walkable_count == CountModules(a, {"FloorStd"}) + CountModules(a, {"FloorLarge"})
                          + CountModules(a, {"RampSteep"})
        hazard_count == CountModules(a, {"HazardLavaPit"})
                        + CountModules(a, {"HazardLaserEmitterStatic"})
                        + CountModules(a, {"HazardLaserTurretRotate"})
    IN  IF empty_cells.panic THEN [panic |-> TRUE]
        ELSE [panic |-> FALSE,
              total_cells |-> total_cells,
              filled_cells |-> filled_cells,
              empty_cells |-> empty_cells,
              walkable_cells |-> walkable_count,
              hazard_cells |-> hazard_count,
              energy_orbs |-> CountModules(a, {"OrbEnergy"}),
              interactive_elements |-> CountModules(a, InteractiveTypes),
              fill_ratio |-> <<filled_cells, total_cells>>,
              hazard_density |-> <<hazard_count, total_cells>>,
              walkable_ratio |-> <<walkable_count, total_cells>>]

\* get_statistics on the grid a call returned
Statistics ==
    /\ Succeeded
    /\ \E build \in Builds : vres' = GetStatistics(arena, build)
    /\ pc' = "stats"
    /\ UNCHANGED <<scn, rules_order, env_order, arena, monitor, sel, wfc, loc, result, rng, prev>>

NextStats == Pipeline \/ Statistics
SpecStats == InitGen /\ [][NextStats]_vars

\* C29: on a grid a call returned, get_statistics subtracts the record count
\* from the cell count without going below zero: the grid holds at most
\* width * height records, and filled and empty cells add up to the total.
C29_EmptyCellsNoUnderflow ==
    pc = "stats" =>
        /\ Len(arena.modules) <= arena.width * arena.height
        /\ ~vres.panic
        /\ ~vres.empty_cells.wrapped
        /\ vres.filled_cells + vres.empty_cells.value = vres.total_cells

----------------------------------------------------------------------------
(* Mutations of a generated grid: MutationEngine::apply_mutation.  The
   engine's state is prev: the ids of active_mutations, the template chosen
   by the call in progress and its intensity in halves (0, 0.5 or 1). *)

\* MutationEngine::create_mutation_pool.  An environment change is the f32
\* base value in ten-thousandths, cut to an integer: -0.8 is -8000.
MutationPool ==
    <<[id |-> "GravityInvert",
       spawn_hazards |-> <<<<"OrbEnergy", 3>>>>,
       remove_modules |-> <<>>,
       transform_modules |-> <<>>,
       env_var_changes |-> <<<<"Gravity", -8000>>>>,
       rule_additions |-> <<"MoonGravity">>,
       rule_removals |-> <<>>],
      [id |-> "LaserStorm",
       spawn_hazards |-> <<<<"HazardLaserTurretRotate", 4>>, <<"OrbEnergy", 5>>>>,
       remove_modules |-> <<>>,
       transform_modules |-> <<>>,
       env_var_changes |-> <<>>,
       rule_additions |-> <<"ProjectileRain">>,
       rule_removals |-> <<>>],
      [id |-> "FloorIsLava",
       spawn_hazards |-> <<<<"HazardLavaPit", 6>>>>,
       remove_modules |-> <<>>,
       transform_modules |-> <<<<"FloorStd", "HazardLavaPit">>>>,
       env_var_changes |-> <<>>,
       rule_additions |-> <<"LavaFloor">>,
       rule_removals |-> <<>>]>>

MaxMutations == 2

\* The difficulties passed to apply_mutation, and the draws of
\* gen_range(0.5..1.2) in halves: 0.5 and 1.0
Difficulties == {0, 1, 2}
RangeDraws == {1, 2}

\* (difficulty * draw).clamp(0.0, 1.0), in halves
Intensity(difficulty, draw) ==
    IF difficulty * draw > 2 THEN 2 ELSE difficulty * draw

\* (base_count as f32 * intensity).ceil() as u32
SpawnCount(base_count, intensity) == (base_count * intensity + 1) \div 2

\* The module-removal loop of apply_arena_changes
RECURSIVE RemoveModules(_, _)
RemoveModules(a, types) ==
    IF types = <<>> THEN a
    ELSE RemoveModules([a EXCEPT !.modules =
                           SelectSeq(@, LAMBDA c : c.module_id # Head(types))],
                       Tail(types))

\* The transformation loop of apply_arena_changes
RECURSIVE TransformModules(_, _)
TransformModules(a, pairs) ==
    IF pairs = <<>> THEN a
    ELSE TransformModules(
             [a EXCEPT !.modules =
                 [k \in 1..Len(@) |->
                     IF @[k].module_id = Head(pairs)[1]
                     THEN [@[k] EXCEPT !.module_id = Head(pairs)[2]]
                     ELSE @[k]]],
             Tail(pairs))

\* The loop over env_var_changes: base_value * intensity, inserted
RECURSIVE ChangeEnvVars(_, _, _)
ChangeEnvVars(a, changes, intensity) ==
    IF changes = <<>> THEN a
    ELSE ChangeEnvVars(
             [a EXCEPT !.env_variables =
                 EnvInsert(@, Head(changes)[1], (Head(changes)[2] * intensity) \div 2)],
             Tail(changes), intensity)

\* The loop over rule_additions: a rule built by create_rule_from_id is
\* pushed unless its id is active
RECURSIVE AddRules(_, _)
AddRules(a, ids) ==
    IF ids = <<>> THEN a
    ELSE AddRules(IF HasRule(a, Head(ids)) THEN a
                  ELSE [a EXCEPT !.active_rules = Append(@, CreateRuleFromId(Head(ids)))],
                  Tail(ids))

\* arena.active_rules.retain(|r| !rule_removals.contains(&r.id))
RetainRules(a, removals) ==
    [a EXCEPT !.active_rules = SelectSeq(@, LAMBDA r : r.id \notin Range(removals))]

\* Calls generate(2, 1, seed) that select No Jump, Lava Floor, Projectile
\* Rain or Moon Gravity on a layout of three floors, the call on the full
\* 6x6 grid and the call that stacks lava on a floor
MutationScenarios ==
    {[Scenario(2, 1, 0) EXCEPT !.ruleS = {0, 62, 75, 97}, !.solid = {0, 1, 2},
                               !.posS = {0, 70}],
     FullGridScenario, LavaOnFloorScenario}

\* A generator and a monitor as in InitGenerator, and MutationEngine::new
InitMutation ==
    /\ scn \in MutationScenarios
    /\ pc = "idle"
    /\ rules_order = RuleDeclOrder
    /\ env_order = EnvDeclOrder
    /\ arena = NewArena(0, 0, 0)
    /\ monitor = NewMonitor
    /\ sel = NoSel
    /\ wfc = NoWfc
    /\ loc = NoLoc
    /\ result = "none"
    /\ rng = [tape |-> <<>>, pos |-> 0, mode |-> "off"]
    /\ prev = [active_mutations |-> <<>>, chosen |-> 0, intensity |-> 0]
    /\ vres = NoResult

\* apply_mutation up to the call of apply_arena_changes: a template of the
\* pool (every template is applicable), the intensity, and the spawn counts
\* of the template's spawn_hazards
ApplyMutation ==
    /\ Succeeded \/ pc = "mutated"
    /\ Len(prev.active_mutations) < MaxMutations
    /\ \E chosen \in 1..Len(MutationPool) : \E difficulty \in Difficulties :
       \E draw \in RangeDraws :
          LET intensity == Intensity(difficulty, draw)
              spawn == MutationPool[chosen].spawn_hazards
          IN  /\ prev' = [prev EXCEPT !.chosen = chosen, !.intensity = intensity]
              /\ loc' = [NoLoc EXCEPT !.list =
                            [k \in 1..Len(spawn) |->
                                <<spawn[k][1], SpawnCount(spawn[k][2], intensity)>>]]
    /\ pc' = "spawn"
    /\ UNCHANGED <<scn, rules_order, env_order, arena, monitor, sel, wfc, result, rng, vres>>

\* One iteration of the while loop of spawn_modules_in_arena for the first
\* pending entry of spawn_hazards, or the loop's end: loc.n is spawned,
\* loc.attempt is attempts
SpawnModule ==
    /\ pc = "spawn"
    /\ loc.list # <<>>
    /\ LET module_type == Head(loc.list)[1]
           count == Head(loc.list)[2]
       IN  IF loc.n < count /\ loc.attempt < count * 10
           THEN \E ux \in DrawSet(scn.posS, 0) : \E uy \in DrawSet(scn.posS, 1) :
                   LET x == GenRange(ux, arena.width)
                       y == GenRange(uy, arena.height)
                   IN  IF IsFree(arena, x, y)
                       THEN /\ arena' = AddModule(arena, x, y, module_type)
                            /\ loc' = [loc EXCEPT !.n = @ + 1, !.attempt = @ + 1]
                       ELSE /\ arena' = arena
                            /\ loc' = [loc EXCEPT !.attempt = @ + 1]
           ELSE /\ arena' = arena
                /\ loc' = [loc EXCEPT !.list = Tail(@), !.n = 0, !.attempt = 0]
    /\ UNCHANGED <<scn, pc, rules_order, env_order, monitor, sel, wfc, result, rng, prev, vres>>

\* The rest of apply_mutation: removals and transformations of modules, the
\* environment changes, the rule additions and removals, and the push on
\* active_mutations
FinishMutation ==
    /\ pc = "spawn"
    /\ loc.list = <<>>
    /\ LET chosen == MutationPool[prev.chosen]
           a1 == TransformModules(RemoveModules(arena, chosen.remove_modules),
                                  chosen.transform_modules)
           a2 == ChangeEnvVars(a1, chosen.env_var_changes, prev.intensity)
       IN  arena' = RetainRules(AddRules(a2, chosen.rule_additions), chosen.rule_removals)
    /\ prev' = [prev EXCEPT !.active_mutations = Append(@, MutationPool[prev.chosen].id)]
    /\ loc' = NoLoc
    /\ pc' = "mutated"
    /\ UNCHANGED <<scn, rules_order, env_order, monitor, sel, wfc, result, rng, vres>>

\* validate_arena on the mutated grid, with a new monitor
Revalidate ==
    /\ pc = "mutated"
    /\ \E order \in EnvOrders : monitor' = ValidateArena(NewMonitor, arena, order)
    /\ pc' = "revalidated"
    /\ UNCHANGED <<scn, rules_order, env_order, arena, sel, wfc, loc, result, rng, prev, vres>>

NextMutation == Pipeline \/ ApplyMutation \/ SpawnModule \/ FinishMutation \/ Revalidate
SpecMutation == InitMutation /\ [][NextMutation]_vars

Mutated == pc \in {"mutated", "revalidated"}

\* The active rules hold no id twice
NoRuleTwice(rules) ==
    \A i, j \in 1..Len(rules) : rules[i].id = rules[j].id => i = j

\* No two active rules of which the catalog declares one incompatible with
\* the other
NoIncompatiblePair(rules) ==
    \A i, j \in 1..Len(rules) : rules[j].id \notin RuleIncompatibleWith(rules[i].id)

IncompatibleRulesAnomalies(m) ==
    {k \in 1..Len(m.anomalies) :
        /\ m.anomalies[k].category = "RULES"
        /\ m.anomalies[k].severity = "Critical"
        /\ m.anomalies[k].message[1] = "incompatible_rules"}

\* C30: after one or more apply_mutation calls on a grid a call returned,
\* the active rules hold no id twice and no two rules the catalog declares
\* incompatible, and the validation of the mutated grid records no Critical
\* incompatible-rules anomaly.
C30_MutationKeepsRulesCompatible ==
    Mutated =>
        /\ NoRuleTwice(arena.active_rules)
        /\ NoIncompatiblePair(arena.active_rules)
        /\ pc = "revalidated" => IncompatibleRulesAnomalies(monitor) = {}

====
